---- MODULE Spec2Model ----
(***************************************************************************)
(* Model of the Transform stage of the retail data-integration hub         *)
(* (src/etl/transform.py).  transform_all is a sequential program: each    *)
(* builder call is one step; the tables it has produced so far are kept in *)
(* `results`, as in the code.                                              *)
(*                                                                         *)
(* Data representation.  A cell of a DataFrame is a tagged record:         *)
(*   Num(n)  a number,  Str(s) a text (s is the sequence of its character  *)
(*   codes),  NaN  a missing value (numpy NaN / None),  Ts(y,m,d) a        *)
(*   timestamp,  NaT  a missing timestamp.                                 *)
(* Amounts are integers (the retail data set carries whole prices).        *)
(*                                                                         *)
(* Wall clock.  `now` is the value datetime.utcnow() returns; a column set *)
(* from it holds one value for the whole table, kept in `stamps` under the *)
(* table's name.  `previous` holds the tables and stamps of the run before *)
(* the current one, when transform_all is called again on the same input.  *)
(*                                                                         *)
(* Warehouse (src/etl/load.py).  `bq` maps the name of each BigQuery table *)
(* that exists to its rows; `merge` is the position of the running         *)
(* scd_type2_merge_customer call.  A load job or a query either takes      *)
(* effect as a whole or fails without any effect.                          *)
(***************************************************************************)
EXTENDS Integers, Sequences, FiniteSets, TLC

VARIABLES extracted, pc, results, error, now, stamps, previous, bq, merge,
          load, pipeline, dag

vars == <<extracted, pc, results, error, now, stamps, previous, bq, merge,
          load, pipeline, dag>>

---------------------------------------------------------------------------
(* Cells *)

Num(n) == [k |-> "num", n |-> n]
Str(s) == [k |-> "str", s |-> s]
NaN == [k |-> "nan"]
Ts(y, m, d) == [k |-> "ts", y |-> y, m |-> m, d |-> d]
NaT == [k |-> "nat"]

IsNum(c) == c.k = "num"
IsStr(c) == c.k = "str"
IsNull(c) == c.k \in {"nan", "nat"}

---------------------------------------------------------------------------
(* Generic sequence helpers *)

RECURSIVE SelectRows(_, _)
\* df[mask]: the rows whose position is in keep, in their original order
SelectRows(rows, keep) ==
    IF rows = <<>> THEN <<>>
    ELSE LET n == Len(rows)
             front == SelectRows(SubSeq(rows, 1, n - 1), keep)
         IN  IF n \in keep THEN Append(front, rows[n]) ELSE front

Range(f) == {f[i] : i \in DOMAIN f}

---------------------------------------------------------------------------
(* Python str methods, on sequences of character codes *)

IsUpperCh(c) == c \in 65..90
IsLowerCh(c) == c \in 97..122
IsCasedCh(c) == IsUpperCh(c) \/ IsLowerCh(c)
UpperCh(c) == IF IsLowerCh(c) THEN c - 32 ELSE c
LowerCh(c) == IF IsUpperCh(c) THEN c + 32 ELSE c
IsSpaceCh(c) == c \in {32, 9, 10, 13}

\* str.lower()
PyLower(s) == [i \in 1..Len(s) |-> LowerCh(s[i])]

\* str.title(): a cased character is upper-cased when it follows an uncased
\* character (or starts the text) and lower-cased otherwise
PyTitle(s) ==
    [i \in 1..Len(s) |->
        IF i = 1 \/ ~IsCasedCh(s[i - 1]) THEN UpperCh(s[i]) ELSE LowerCh(s[i])]

\* str.strip(): leading and trailing whitespace removed
PyStrip(s) ==
    LET idx == {i \in 1..Len(s) : ~IsSpaceCh(s[i])}
    IN  IF idx = {} THEN <<>>
        ELSE LET lo == CHOOSE i \in idx : \A j \in idx : i <= j
                 hi == CHOOSE i \in idx : \A j \in idx : i >= j
             IN  SubSeq(s, lo, hi)

\* Series.str.strip().str.title(): missing values stay missing
StrStripTitle(c) == IF IsStr(c) THEN Str(PyTitle(PyStrip(c.s))) ELSE c

\* Python's < on str: lexicographic by code point
RECURSIVE StrLess(_, _)
StrLess(a, b) ==
    IF a = <<>> THEN b # <<>>
    ELSE IF b = <<>> THEN FALSE
    ELSE IF Head(a) # Head(b) THEN Head(a) < Head(b)
    ELSE StrLess(Tail(a), Tail(b))

---------------------------------------------------------------------------
(* pd.to_numeric(errors='coerce') *)

IsDigitCh(c) == c \in 48..57

RECURSIVE DigitsValue(_)
DigitsValue(s) ==
    IF s = <<>> THEN 0
    ELSE 10 * DigitsValue(SubSeq(s, 1, Len(s) - 1)) + (s[Len(s)] - 48)

AllDigits(s) == Len(s) > 0 /\ \A i \in 1..Len(s) : IsDigitCh(s[i])

\* a text is numeric when it is an optionally signed run of digits
ParseNumber(s) ==
    IF AllDigits(s) THEN Num(DigitsValue(s))
    ELSE IF Len(s) > 1 /\ s[1] = 45 /\ AllDigits(Tail(s))
         THEN Num(0 - DigitsValue(Tail(s)))
    ELSE NaN

ToNumeric(c) ==
    IF IsNum(c) THEN c
    ELSE IF IsStr(c) THEN ParseNumber(PyStrip(c.s))
    ELSE NaN

---------------------------------------------------------------------------
(* Calendar and pd.to_datetime(errors='coerce') *)

IsLeap(y) == (y % 4 = 0 /\ y % 100 # 0) \/ y % 400 = 0

DaysInMonth(y, m) ==
    IF m = 2 THEN (IF IsLeap(y) THEN 29 ELSE 28)
    ELSE IF m \in {4, 6, 9, 11} THEN 30 ELSE 31

DaysInYear(y) == IF IsLeap(y) THEN 366 ELSE 365

\* an ISO text YYYY-MM-DD naming a day of the calendar parses; any other text,
\* and a missing cell, becomes NaT
ToDatetime(c) ==
    IF IsStr(c) /\ Len(c.s) = 10 /\ c.s[5] = 45 /\ c.s[8] = 45
       /\ AllDigits(SubSeq(c.s, 1, 4)) /\ AllDigits(SubSeq(c.s, 6, 7))
       /\ AllDigits(SubSeq(c.s, 9, 10))
    THEN LET y == DigitsValue(SubSeq(c.s, 1, 4))
             m == DigitsValue(SubSeq(c.s, 6, 7))
             d == DigitsValue(SubSeq(c.s, 9, 10))
         IN  IF m \in 1..12 /\ d \in 1..DaysInMonth(y, m) THEN Ts(y, m, d) ELSE NaT
    ELSE NaT

\* strftime('%Y%m%d').astype(int)
DateKey(t) == t.y * 10000 + t.m * 100 + t.d

\* Timestamp ordering
TsLeq(a, b) == DateKey(a) <= DateKey(b)

---------------------------------------------------------------------------
(* Float arithmetic and comparison with NaN (IEEE 754, as numpy applies it) *)

\* a * b: NaN when either operand is NaN
FMul(a, b) == IF IsNum(a) /\ IsNum(b) THEN Num(a.n * b.n) ELSE NaN

\* a == b: False whenever an operand is NaN
FEq(a, b) == IsNum(a) /\ IsNum(b) /\ a.n = b.n

\* a != b: True whenever an operand is NaN
FNe(a, b) == ~FEq(a, b)

\* a > n: False for NaN
FGt(a, n) == IsNum(a) /\ a.n > n

---------------------------------------------------------------------------
(* clean_retail_sales *)

AgeLower == 18
AgeUpper == 100

\* Series.clip(lower, upper): NaN stays NaN
Clip(c, lo, hi) ==
    IF IsNum(c) THEN Num(IF c.n < lo THEN lo ELSE IF c.n > hi THEN hi ELSE c.n)
    ELSE c

\* hashlib.md5 of an f-string: the digest stands for the values it is made of
Md5(parts) == [k |-> "md5", of |-> parts]

\* the dtype of a column read from the source is object when it holds a text,
\* and also when the frame has no row at all
IsObjectColumn(df, col) == df = <<>> \/ \E i \in 1..Len(df) : IsStr(df[i][col])

\* df['date'] = pd.to_datetime(df['date'], errors='coerce')
ParseDates(df) == [i \in 1..Len(df) |-> [df[i] EXCEPT !.date = ToDatetime(@)]]

\* df.dropna(subset=['date'])
DropNullDates(df) == SelectRows(df, {i \in 1..Len(df) : df[i].date # NaT})

\* pd.to_numeric(errors='coerce') on quantity, price_per_unit, total_amount
CoerceNumeric(df) ==
    [i \in 1..Len(df) |->
       [df[i] EXCEPT !.quantity = ToNumeric(@),
                     !.price_per_unit = ToNumeric(@),
                     !.total_amount = ToNumeric(@)]]

\* df[df['quantity'] > 0]
PositiveQuantity(df) == SelectRows(df, {i \in 1..Len(df) : FGt(df[i].quantity, 0)})

\* total_amount_calculated = quantity * price_per_unit
Calculated(row) == FMul(row.quantity, row.price_per_unit)

\* (total_amount != total_amount_calculated).sum()
Discrepancies(df) ==
    Cardinality({i \in 1..Len(df) : FNe(df[i].total_amount, Calculated(df[i]))})

\* the calculated column replaces total_amount when any row disagrees
RecalculateTotals(df) ==
    IF Discrepancies(df) > 0
    THEN [i \in 1..Len(df) |-> [df[i] EXCEPT !.total_amount = Calculated(df[i])]]
    ELSE df

\* gender and product_category: .str.strip().str.title()
StandardizeText(df) ==
    [i \in 1..Len(df) |->
       [df[i] EXCEPT !.gender = StrStripTitle(@),
                     !.product_category = StrStripTitle(@)]]

\* a variant of ClipAge that filters the rows out of range instead of clipping
ClipAgeDropsOutOfRange(df) ==
    SelectRows(df, {i \in 1..Len(df) :
                      ~IsNum(df[i].age) \/ df[i].age.n \in AgeLower..AgeUpper})

\* age.clip(lower=18, upper=100)
ClipAge(df) == [i \in 1..Len(df) |-> [df[i] EXCEPT !.age = Clip(@, AgeLower, AgeUpper)]]

\* row_hash = md5(transaction_id, date, customer_id)
AddRowHash(df) ==
    [i \in 1..Len(df) |->
       [transaction_id |-> df[i].transaction_id,
        date |-> df[i].date,
        customer_id |-> df[i].customer_id,
        gender |-> df[i].gender,
        age |-> df[i].age,
        product_category |-> df[i].product_category,
        quantity |-> df[i].quantity,
        price_per_unit |-> df[i].price_per_unit,
        total_amount |-> df[i].total_amount,
        row_hash |-> Md5(<<df[i].transaction_id, df[i].date, df[i].customer_id>>)]]

\* the frame as it stands before the text columns are standardized
FilteredSales(df) ==
    RecalculateTotals(PositiveQuantity(CoerceNumeric(DropNullDates(ParseDates(df)))))

\* a row that reaches the clip carries a text in its age column
HasTextAge(df) == \E i \in 1..Len(df) : IsStr(df[i].age)

\* The result of the cleaning of a frame that has every column.
\* The result is [err, rows]: err is "none" and rows the cleaned frame, or err
\* names the exception the call ends with.  The .str accessor raises
\* AttributeError on a column that is not of object dtype; clip raises TypeError
\* when it compares a text age with the bounds.
clean_retail_sales(df) ==
    IF ~IsObjectColumn(df, "gender") \/ ~IsObjectColumn(df, "product_category")
    THEN [err |-> "AttributeError", rows |-> <<>>]
    ELSE IF HasTextAge(FilteredSales(df))
    THEN [err |-> "TypeError", rows |-> <<>>]
    ELSE [err |-> "none",
          rows |-> AddRowHash(ClipAge(StandardizeText(FilteredSales(df))))]

\* the columns clean_retail_sales reads
RequiredColumns ==
    {"date", "quantity", "price_per_unit", "total_amount", "gender", "product_category",
     "age", "customer_id", "transaction_id"}

\* a variant of ColumnError whose row_hash reads the ids with a default
ColumnErrorIdsOptional(columns, df) ==
    IF ~({"date", "quantity", "price_per_unit", "total_amount", "gender"} \subseteq columns)
    THEN "KeyError"
    ELSE IF ~IsObjectColumn(df, "gender") THEN "none"
    ELSE IF "product_category" \notin columns THEN "KeyError"
    ELSE IF ~IsObjectColumn(df, "product_category") THEN "none"
    ELSE IF "age" \notin columns THEN "KeyError"
    ELSE "none"

\* The exception a missing column ends the cleaning with, "none" when every
\* column is there or another exception comes first.  df[col] raises KeyError,
\* in the order of the statements: date, the three measures, gender,
\* product_category, age.  The row_hash lambda raises KeyError on the first row
\* for a missing transaction_id or customer_id; on a frame without rows apply
\* swallows it and returns a copy of the frame, and setting the single column
\* row_hash to a frame of several columns raises ValueError.
ColumnError(columns, df) ==
    IF ~({"date", "quantity", "price_per_unit", "total_amount", "gender"} \subseteq columns)
    THEN "KeyError"
    ELSE IF ~IsObjectColumn(df, "gender") THEN "none"
    ELSE IF "product_category" \notin columns THEN "KeyError"
    ELSE IF ~IsObjectColumn(df, "product_category") THEN "none"
    ELSE IF "age" \notin columns THEN "KeyError"
    ELSE IF HasTextAge(FilteredSales(df)) THEN "none"
    ELSE IF ~({"transaction_id", "customer_id"} \subseteq columns)
    THEN (IF FilteredSales(df) = <<>> THEN "ValueError" ELSE "KeyError")
    ELSE "none"

\* clean_retail_sales of a frame given by its columns and its rows
clean_retail_sales_frame(columns, df) ==
    IF ColumnError(columns, df) # "none"
    THEN [err |-> ColumnError(columns, df), rows |-> <<>>]
    ELSE clean_retail_sales(df)

---------------------------------------------------------------------------
(* build_dim_date *)

\* the days of month m of year y, in order
MonthDays(y, m) == [d \in 1..DaysInMonth(y, m) |-> Ts(y, m, d)]

RECURSIVE DaysFrom(_, _, _)
\* the days from the first of month m of year y to Dec 31 of year y1, in order
DaysFrom(y, m, y1) ==
    IF y > y1 THEN <<>>
    ELSE IF m = 12 THEN MonthDays(y, m) \o DaysFrom(y + 1, 1, y1)
    ELSE MonthDays(y, m) \o DaysFrom(y, m + 1, y1)

\* pd.date_range(start, end, freq='D') from Jan 1 of y0 to Dec 31 of y1: every
\* day from start to end, one step of a day at a time
DateRange(y0, y1) == DaysFrom(y0, 1, y1)

\* Series.min() / Series.max() of a timestamp column without NaT
MinDate(rows) == CHOOSE t \in {rows[i].date : i \in 1..Len(rows)} :
                    \A i \in 1..Len(rows) : TsLeq(t, rows[i].date)
MaxDate(rows) == CHOOSE t \in {rows[i].date : i \in 1..Len(rows)} :
                    \A i \in 1..Len(rows) : TsLeq(rows[i].date, t)

\* One row per day of the range.  date_key is the %Y%m%d rendering of full_date
\* and stands for it; year and month are read from the same day.  The quarter,
\* name, week, weekend and fiscal columns are further functions of full_date
\* that no builder reads.  An empty frame has min() = NaT, whose year is NaN:
\* pd.Timestamp(year=NaN, ...) raises.
DimDateRow(day) == [date_key |-> DateKey(day), year |-> day.y, month |-> day.m]

DimDateRows(range) == [i \in 1..Len(range) |-> DimDateRow(range[i])]

\* a variant of build_dim_date whose range ends with the year of min_date
build_dim_date_min_year_only(df_sales) ==
    IF df_sales = <<>> THEN [err |-> "TypeError", rows |-> <<>>]
    ELSE [err |-> "none",
          rows |-> DimDateRows(DateRange(MinDate(df_sales).y, MinDate(df_sales).y))]

\* a variant of build_dim_date that answers an empty sales table with an empty
\* dimension
build_dim_date_empty_for_empty(df_sales) ==
    IF df_sales = <<>> THEN [err |-> "none", rows |-> <<>>]
    ELSE [err |-> "none",
          rows |-> DimDateRows(DateRange(MinDate(df_sales).y, MaxDate(df_sales).y))]

\* min() and max() of an empty date column are NaT, whose year is NaN:
\* pd.Timestamp(year=NaN, month=1, day=1) raises TypeError
build_dim_date(df_sales) ==
    IF df_sales = <<>> THEN [err |-> "TypeError", rows |-> <<>>]
    ELSE [err |-> "none",
          rows |-> DimDateRows(DateRange(MinDate(df_sales).y, MaxDate(df_sales).y))]

---------------------------------------------------------------------------
(* build_dim_customer *)

RECURSIVE SortedStrs(_)
\* sorted(S) for a set of Str cells
SortedStrs(S) ==
    IF S = {} THEN <<>>
    ELSE LET least == CHOOSE a \in S : \A b \in S : a = b \/ StrLess(a.s, b.s)
         IN  <<least>> \o SortedStrs(S \ {least})

\* the positions of a frame whose column col holds key
GroupOf(rows, col, key) == {i \in 1..Len(rows) : rows[i][col] = key}

\* GroupBy 'first': the first value of the group that is not missing
FirstValid(rows, idx, col) ==
    LET valid == {i \in idx : ~IsNull(rows[i][col])}
    IN  IF valid = {} THEN NaN
        ELSE rows[CHOOSE i \in valid : \A j \in valid : i <= j][col]

\* GroupBy 'nunique': the number of distinct values that are not missing
NUnique(rows, idx, col) == Cardinality({rows[i][col] : i \in idx} \ {NaN})

FarFuture == Ts(9999, 12, 31)

\* a variant of build_dim_customer without the groupby: a row per sale
build_dim_customer_per_sale(df_sales) ==
    [k \in 1..Len(df_sales) |->
       [customer_id |-> df_sales[k].customer_id,
        gender |-> df_sales[k].gender,
        age |-> df_sales[k].age,
        first_purchase_date |-> df_sales[k].date,
        last_purchase_date |-> df_sales[k].date,
        total_transactions |-> 1,
        customer_key |-> k,
        effective_start_date |-> df_sales[k].date,
        effective_end_date |-> FarFuture,
        is_current |-> TRUE,
        version |-> 1,
        row_hash |-> Md5(<<df_sales[k].customer_id, df_sales[k].gender,
                           df_sales[k].age>>)]]

\* groupby('customer_id') sorts the keys and leaves out rows whose key is missing
build_dim_customer(df_sales) ==
    LET ids == SortedStrs({df_sales[i].customer_id : i \in 1..Len(df_sales)} \ {NaN})
        grp(k) == GroupOf(df_sales, "customer_id", ids[k])
        sub(k) == SelectRows(df_sales, grp(k))
    IN  [k \in 1..Len(ids) |->
           [customer_id |-> ids[k],
            gender |-> FirstValid(df_sales, grp(k), "gender"),
            age |-> FirstValid(df_sales, grp(k), "age"),
            first_purchase_date |-> MinDate(sub(k)),
            last_purchase_date |-> MaxDate(sub(k)),
            total_transactions |-> NUnique(df_sales, grp(k), "transaction_id"),
            customer_key |-> k,
            effective_start_date |-> MinDate(sub(k)),
            effective_end_date |-> FarFuture,
            is_current |-> TRUE,
            version |-> 1,
            row_hash |-> Md5(<<ids[k], FirstValid(df_sales, grp(k), "gender"),
                               FirstValid(df_sales, grp(k), "age")>>)]]

---------------------------------------------------------------------------
(* build_dim_product_category *)

\* Series.unique().tolist(): the distinct values, missing value included
UniqueCells(rows, col) == {rows[i][col] : i \in 1..Len(rows)}

\* [cat.strip().title() for cat in api_categories]
ApiCats(api_categories) ==
    {Str(PyTitle(PyStrip(api_categories[i]))) : i \in 1..Len(api_categories)}

\* a variant of CategorySource that never answers 'both'
CategorySourceNeverBoth(c, retail_cats, api_cats) ==
    IF c \in retail_cats THEN "retail" ELSE "api"

CategorySource(c, retail_cats, api_cats) ==
    IF c \in retail_cats /\ PyLower(c.s) \in {PyLower(x.s) : x \in api_cats}
    THEN "both"
    ELSE IF c \in retail_cats THEN "retail" ELSE "api"

\* sorted() compares a missing category (a float) with a text and raises TypeError;
\* when the missing value is the only category, name.lower() raises
\* AttributeError.
build_dim_product_category(df_sales, api_categories) ==
    LET retail_cats == UniqueCells(df_sales, "product_category")
        api_cats == ApiCats(api_categories)
        all_set == retail_cats \cup api_cats
    IN  IF NaN \in all_set
        THEN [err |-> IF Cardinality(all_set) > 1 THEN "TypeError" ELSE "AttributeError",
              rows |-> <<>>]
        ELSE LET all_categories == SortedStrs(all_set)
             IN  [err |-> "none",
                  rows |-> [k \in 1..Len(all_categories) |->
                              [category_key |-> k,
                               category_name |-> all_categories[k],
                               category_source |->
                                   CategorySource(all_categories[k], retail_cats, api_cats)]]]

---------------------------------------------------------------------------
(* build_fact_sales *)

\* a variant of MapKey that answers the key of the first dimension row for a
\* key it does not find
MapKeyDefaultsToFirst(dim, key_col, val_col, key) ==
    IF \E j \in 1..Len(dim) : dim[j][key_col] = key
    THEN Num(dim[CHOOSE j \in 1..Len(dim) : dim[j][key_col] = key][val_col])
    ELSE IF dim = <<>> THEN NaN ELSE Num(dim[1][val_col])

\* Series.map(dict): the value of the dimension row with that key, else NaN
MapKey(dim, key_col, val_col, key) ==
    IF \E j \in 1..Len(dim) : dim[j][key_col] = key
    THEN Num(dim[CHOOSE j \in 1..Len(dim) :
                   /\ dim[j][key_col] = key
                   /\ \A l \in 1..Len(dim) : dim[l][key_col] = key => l <= j][val_col])
    ELSE NaN

\* a variant of build_fact_sales that joins the dimensions with an inner join:
\* a sale without a customer or category row is left out
build_fact_sales_inner_join(df_sales, dim_customer, dim_category, dim_date) ==
    LET kept == SelectRows(df_sales,
                   {i \in 1..Len(df_sales) :
                      /\ \E j \in 1..Len(dim_customer) :
                            dim_customer[j].customer_id = df_sales[i].customer_id
                      /\ \E j \in 1..Len(dim_category) :
                            dim_category[j].category_name = df_sales[i].product_category})
    IN  [i \in 1..Len(kept) |->
           [transaction_id |-> kept[i].transaction_id,
            date_key |-> DateKey(kept[i].date),
            customer_key |-> MapKey(dim_customer, "customer_id", "customer_key",
                                    kept[i].customer_id),
            category_key |-> MapKey(dim_category, "category_name", "category_key",
                                    kept[i].product_category),
            quantity |-> kept[i].quantity,
            price_per_unit |-> kept[i].price_per_unit,
            total_amount |-> kept[i].total_amount,
            customer_id |-> kept[i].customer_id,
            product_category |-> kept[i].product_category,
            gender |-> kept[i].gender,
            age |-> kept[i].age,
            sales_key |-> i]]

build_fact_sales(df_sales, dim_customer, dim_category, dim_date) ==
    [i \in 1..Len(df_sales) |->
       [transaction_id |-> df_sales[i].transaction_id,
        date_key |-> DateKey(df_sales[i].date),
        customer_key |-> MapKey(dim_customer, "customer_id", "customer_key",
                                df_sales[i].customer_id),
        category_key |-> MapKey(dim_category, "category_name", "category_key",
                                df_sales[i].product_category),
        quantity |-> df_sales[i].quantity,
        price_per_unit |-> df_sales[i].price_per_unit,
        total_amount |-> df_sales[i].total_amount,
        customer_id |-> df_sales[i].customer_id,
        product_category |-> df_sales[i].product_category,
        gender |-> df_sales[i].gender,
        age |-> df_sales[i].age,
        sales_key |-> i]]

---------------------------------------------------------------------------
(* clean_api_products and build_dim_product *)

RatingUpper == 5

\* The columns kept are those build_dim_product reads and the cleaning changes.
\* A catalog without any product is a frame without columns: df['price'] raises.
clean_api_products(df) ==
    IF df = <<>> THEN [err |-> "KeyError", rows |-> <<>>]
    ELSE IF ~IsObjectColumn(df, "category")
    THEN [err |-> "AttributeError", rows |-> <<>>]
    ELSE [err |-> "none",
          rows |-> [i \in 1..Len(df) |->
                      [df[i] EXCEPT !.price = ToNumeric(@),
                                    !.category = StrStripTitle(@),
                                    !.title = IF IsStr(@) THEN Str(PyStrip(@.s)) ELSE @,
                                    !.rating_rate = Clip(@, 0, RatingUpper)]]]

\* effective_start_date and _loaded_at are the wall clock of the call and are
\* not carried
build_dim_product(df_api_products, df_sales) ==
    [i \in 1..Len(df_api_products) |->
       [api_product_id |-> df_api_products[i].id,
        product_name |-> df_api_products[i].title,
        api_price |-> df_api_products[i].price,
        product_category |-> df_api_products[i].category,
        rating_rate |-> df_api_products[i].rating_rate,
        product_key |-> i,
        effective_end_date |-> FarFuture,
        is_current |-> TRUE,
        version |-> 1,
        row_hash |-> Md5(<<df_api_products[i].id, df_api_products[i].title,
                           df_api_products[i].price>>)]]

---------------------------------------------------------------------------
(* Aggregation helpers of the marts *)

RECURSIVE SumOver(_, _, _)
\* GroupBy 'sum' / Series.sum(): missing values are skipped
SumOver(rows, idx, col) ==
    IF idx = {} THEN 0
    ELSE LET i == CHOOSE j \in idx : TRUE
         IN  (IF IsNum(rows[i][col]) THEN rows[i][col].n ELSE 0)
             + SumOver(rows, idx \ {i}, col)

RECURSIVE SortedInts(_)
SortedInts(S) ==
    IF S = {} THEN <<>>
    ELSE LET least == CHOOSE a \in S : \A b \in S : a <= b
         IN  <<least>> \o SortedInts(S \ {least})

\* a / b rounded to the nearest integer, ties to even (b > 0)
RoundDiv(a, b) ==
    LET q == a \div b
        r == a % b
    IN  IF 2 * r < b THEN q
        ELSE IF 2 * r > b THEN q + 1
        ELSE IF q % 2 = 0 THEN q ELSE q + 1

Inf == [k |-> "inf"]

\* (num / den * 100).round(2), carried in hundredths of a percent; a zero
\* denominator gives inf, or NaN for 0 / 0
PctOf(num, den) ==
    IF den = 0 THEN (IF num = 0 THEN NaN ELSE Inf)
    ELSE IF den > 0 THEN Num(RoundDiv(num * 10000, den))
    ELSE Num(RoundDiv((0 - num) * 10000, 0 - den))

---------------------------------------------------------------------------
(* build_mart_sales_performance *)

\* fact.merge(dim_date, on='date_key', how='left'): the dim_date rows of a key
DateRowsOf(dim_date, key) == {j \in 1..Len(dim_date) : dim_date[j].date_key = key}

\* a variant of MergeYearMonth that groups by the month alone
MergeMonthOnly(fact_sales, dim_date) ==
    [i \in 1..Len(fact_sales) |->
       LET js == DateRowsOf(dim_date, fact_sales[i].date_key)
       IN  IF js = {} THEN 0
           ELSE LET j == CHOOSE x \in js : TRUE
                IN  dim_date[j].month]

\* the merged frame's year and month of each fact row, as year * 100 + month;
\* 0 stands for the missing year and month of a row without a dim_date row
MergeYearMonth(fact_sales, dim_date) ==
    [i \in 1..Len(fact_sales) |->
       LET js == DateRowsOf(dim_date, fact_sales[i].date_key)
       IN  IF js = {} THEN 0
           ELSE LET j == CHOOSE x \in js : TRUE
                IN  dim_date[j].year * 100 + dim_date[j].month]

\* groupby(['year', 'month', 'month_name']) with its aggregates, sorted by year
\* and month, then the shift by one row.  Percentages are in hundredths.  Rows
\* with a missing year fall out of the groupby.
MonthlyRows(fact_sales, ym, keys) ==
    [k \in 1..Len(keys) |->
       [year |-> keys[k] \div 100,
        month |-> keys[k] % 100,
        total_revenue |->
            SumOver(fact_sales, {i \in 1..Len(ym) : ym[i] = keys[k]}, "total_amount"),
        total_transactions |->
            NUnique(fact_sales, {i \in 1..Len(ym) : ym[i] = keys[k]}, "transaction_id"),
        total_quantity |->
            SumOver(fact_sales, {i \in 1..Len(ym) : ym[i] = keys[k]}, "quantity"),
        unique_customers |->
            NUnique(fact_sales, {i \in 1..Len(ym) : ym[i] = keys[k]}, "customer_id")]]

\* a variant of WithGrowth that fills the first month with zeros
WithGrowthZeroFirst(monthly) ==
    [k \in 1..Len(monthly) |->
       [year |-> monthly[k].year,
        month |-> monthly[k].month,
        total_revenue |-> monthly[k].total_revenue,
        total_transactions |-> monthly[k].total_transactions,
        total_quantity |-> monthly[k].total_quantity,
        unique_customers |-> monthly[k].unique_customers,
        revenue_prev_month |->
            IF k = 1 THEN Num(0) ELSE Num(monthly[k - 1].total_revenue),
        revenue_growth_pct |->
            IF k = 1 THEN Num(0)
            ELSE PctOf(monthly[k].total_revenue - monthly[k - 1].total_revenue,
                       monthly[k - 1].total_revenue)]]

\* revenue_prev_month = total_revenue.shift(1) and the growth over it
WithGrowth(monthly) ==
    [k \in 1..Len(monthly) |->
       [year |-> monthly[k].year,
        month |-> monthly[k].month,
        total_revenue |-> monthly[k].total_revenue,
        total_transactions |-> monthly[k].total_transactions,
        total_quantity |-> monthly[k].total_quantity,
        unique_customers |-> monthly[k].unique_customers,
        revenue_prev_month |->
            IF k = 1 THEN NaN ELSE Num(monthly[k - 1].total_revenue),
        revenue_growth_pct |->
            IF k = 1 THEN NaN
            ELSE PctOf(monthly[k].total_revenue - monthly[k - 1].total_revenue,
                       monthly[k - 1].total_revenue)]]

MonthlyOf(fact_sales, ym) == MonthlyRows(fact_sales, ym, SortedInts(Range(ym) \ {0}))

build_mart_sales_performance(fact_sales, dim_date, dim_customer) ==
    WithGrowth(MonthlyOf(fact_sales, MergeYearMonth(fact_sales, dim_date)))

---------------------------------------------------------------------------
(* build_mart_category_analysis *)

\* Percentages are in hundredths.  The gender columns exist only when the pivot
\* has both a Female and a Male column; then a category without any gender row
\* gets missing values from the left merge.
Female == Str(<<70, 101, 109, 97, 108, 101>>)
Male == Str(<<77, 97, 108, 101>>)

\* a variant of RevenueShare that leaves out the factor 100
RevenueShareAsFraction(revenue, total_revenue) == PctOf(revenue, total_revenue * 100)

\* revenue_share_pct = (total_revenue / total_revenue.sum() * 100).round(2)
RevenueShare(revenue, total_revenue) == PctOf(revenue, total_revenue)

\* a variant of HasGenderColumns that is content with one of the two columns
HasEitherGenderColumn(genders) == Female \in genders \/ Male \in genders

\* 'Female' in gender_pivot.columns and 'Male' in gender_pivot.columns: the
\* columns of the pivot are the genders of the whole fact table
HasGenderColumns(genders) == Female \in genders /\ Male \in genders

build_mart_category_analysis(fact_sales, dim_category, dim_customer) ==
    LET n == Len(fact_sales)
        cats == SortedStrs({fact_sales[i].product_category : i \in 1..n} \ {NaN})
        grp(k) == GroupOf(fact_sales, "product_category", cats[k])
        revenue(k) == SumOver(fact_sales, grp(k), "total_amount")
        total_revenue == SumOver(fact_sales,
                             {i \in 1..n : fact_sales[i].product_category # NaN},
                             "total_amount")
        genders == {fact_sales[i].gender :
                       i \in {j \in 1..n : fact_sales[j].product_category # NaN}} \ {NaN}
        both == HasGenderColumns(genders)
        gidx(k, g) == {i \in grp(k) : fact_sales[i].gender = g}
        in_pivot(k) == \E i \in grp(k) : fact_sales[i].gender # NaN
        fem(k) == SumOver(fact_sales, gidx(k, Female), "total_amount")
        mal(k) == SumOver(fact_sales, gidx(k, Male), "total_amount")
        fpct(k) == IF in_pivot(k) THEN PctOf(fem(k), fem(k) + mal(k)) ELSE NaN
    IN  [k \in 1..Len(cats) |->
           [product_category |-> cats[k],
            total_revenue |-> revenue(k),
            total_transactions |-> NUnique(fact_sales, grp(k), "transaction_id"),
            total_quantity |-> SumOver(fact_sales, grp(k), "quantity"),
            unique_customers |-> NUnique(fact_sales, grp(k), "customer_id"),
            revenue_share_pct |-> RevenueShare(revenue(k), total_revenue),
            has_gender_pct |-> both,
            female_revenue_pct |-> IF both THEN fpct(k) ELSE NaN,
            male_revenue_pct |->
                IF both /\ IsNum(fpct(k)) THEN Num(10000 - fpct(k).n) ELSE NaN]]

---------------------------------------------------------------------------
(* transform_all: one step per call, in the order of the code *)

\* the readings of the clock are 0..MaxClock
MaxClock == 1

NoTables == [t \in {} |-> <<>>]

\* no scd_type2_merge_customer call is running and none has been made
MergeIdle == [pc |-> "idle", outcome |-> "none", calls |-> 0]

\* load_all is not running and has not been called
LoadIdle == [pc |-> "idle", outcome |-> "none", stats |-> NoTables]

\* run_pipeline has not been called
PipelineIdle ==
    [pc |-> "idle", skip_load |-> FALSE, status |-> "none", stages |-> NoTables,
     error |-> "none", escaped |-> FALSE]

\* the tasks of the retail_etl_pipeline DAG
TaskIds ==
    {"health_check", "extract_retail_sales", "extract_api_products",
     "extract_api_categories", "validate_extract", "transform_data",
     "validate_transform", "load_to_bigquery", "validate_load", "pipeline_summary",
     "cleanup_old_logs"}

\* the thresholds of validate_transform when no Airflow Variable is set
DefaultThresholds ==
    [stg_retail_sales |-> 100, dim_customer |-> 10, dim_date |-> 365, fact_sales |-> 100]

\* a DAG run before its first task: no task instance has a state, nothing is
\* in XCom, no task is in its callable
DagIdle ==
    [state |-> [t \in TaskIds |-> "none"],
     tries |-> [t \in TaskIds |-> 0],
     xcom |-> NoTables,
     thresholds |-> DefaultThresholds,
     step |-> "none",
     transforms |-> 0,
     warned |-> FALSE]

\* no run came before this one
NoRun == [results |-> NoTables, stamps |-> NoTables]

\* a variant of Raise that catches the exception and returns the tables built
\* so far
RaiseReturnsPartial(e) ==
    /\ pc' = "returned"
    /\ error' = e
    /\ UNCHANGED <<extracted, results, now, stamps, previous, bq, merge, load, pipeline, dag>>

\* an exception leaves transform_all: nothing is returned
Raise(e) ==
    /\ pc' = "raised"
    /\ error' = e
    /\ results' = NoTables
    /\ stamps' = NoTables
    /\ UNCHANGED <<extracted, now, previous, bq, merge, load, pipeline, dag>>

\* results[name] = table, then on to the next call
Store(name, table, next) ==
    /\ results' = (name :> table) @@ results
    /\ pc' = next
    /\ UNCHANGED <<extracted, error, now, stamps, previous, bq, merge, load, pipeline, dag>>

\* the same for a builder that sets a column from datetime.utcnow()
StoreStamped(name, table, next) ==
    /\ results' = (name :> table) @@ results
    /\ stamps' = (name :> now) @@ stamps
    /\ pc' = next
    /\ UNCHANGED <<extracted, error, now, previous, bq, merge, load, pipeline, dag>>

CleanRetailSales ==
    /\ pc = "clean_retail_sales"
    /\ LET r == clean_retail_sales_frame(extracted.sales_columns, extracted.retail_sales)
       IN  IF r.err # "none" THEN Raise(r.err)
           ELSE Store("stg_retail_sales", r.rows, "clean_api_products")

CleanApiProducts ==
    /\ pc = "clean_api_products"
    /\ LET r == clean_api_products(extracted.api_products)
       IN  IF r.err # "none" THEN Raise(r.err)
           ELSE Store("stg_api_products", r.rows, "build_dim_date")

BuildDimDate ==
    /\ pc = "build_dim_date"
    /\ LET r == build_dim_date(results["stg_retail_sales"])
       IN  IF r.err # "none" THEN Raise(r.err)
           ELSE Store("dim_date", r.rows, "build_dim_customer")

BuildDimCustomer ==
    /\ pc = "build_dim_customer"
    /\ StoreStamped("dim_customer", build_dim_customer(results["stg_retail_sales"]),
             "build_dim_product")

BuildDimProduct ==
    /\ pc = "build_dim_product"
    /\ StoreStamped("dim_product",
             build_dim_product(results["stg_api_products"], results["stg_retail_sales"]),
             "build_dim_product_category")

BuildDimProductCategory ==
    /\ pc = "build_dim_product_category"
    /\ LET r == build_dim_product_category(results["stg_retail_sales"],
                                           extracted.api_categories)
       IN  IF r.err # "none" THEN Raise(r.err)
           ELSE StoreStamped("dim_product_category", r.rows, "build_fact_sales")

\* a variant of BuildFactSales whose sales_key goes on counting where the run
\* before stopped
BuildFactSalesContinuingKeys ==
    /\ pc = "build_fact_sales"
    /\ LET fact == build_fact_sales(results["stg_retail_sales"], results["dim_customer"],
                                    results["dim_product_category"], results["dim_date"])
           base == IF previous = NoRun THEN 0 ELSE Len(previous.results["fact_sales"])
       IN  StoreStamped("fact_sales",
                        [i \in 1..Len(fact) |-> [fact[i] EXCEPT !.sales_key = @ + base]],
                        "build_mart_sales_performance")

BuildFactSales ==
    /\ pc = "build_fact_sales"
    /\ StoreStamped("fact_sales",
             build_fact_sales(results["stg_retail_sales"], results["dim_customer"],
                              results["dim_product_category"], results["dim_date"]),
             "build_mart_sales_performance")

BuildMartSalesPerformance ==
    /\ pc = "build_mart_sales_performance"
    /\ StoreStamped("mart_sales_performance",
             build_mart_sales_performance(results["fact_sales"], results["dim_date"],
                                          results["dim_customer"]),
             "build_mart_category_analysis")

BuildMartCategoryAnalysis ==
    /\ pc = "build_mart_category_analysis"
    /\ StoreStamped("mart_category_analysis",
             build_mart_category_analysis(results["fact_sales"],
                                          results["dim_product_category"],
                                          results["dim_customer"]),
             "return")

Return ==
    /\ pc = "return"
    /\ pc' = "returned"
    /\ UNCHANGED <<extracted, results, error, now, stamps, previous, bq, merge, load, pipeline, dag>>

Next ==
    \/ CleanRetailSales
    \/ CleanApiProducts
    \/ BuildDimDate
    \/ BuildDimCustomer
    \/ BuildDimProduct
    \/ BuildDimProductCategory
    \/ BuildFactSales
    \/ BuildMartSalesPerformance
    \/ BuildMartCategoryAnalysis
    \/ Return

\* the wall clock moves on
Tick ==
    /\ now < MaxClock
    /\ now' = now + 1
    /\ UNCHANGED <<extracted, pc, results, error, stamps, previous, bq, merge, load, pipeline, dag>>

\* transform_all is called a second time on the data of the first call
Rerun ==
    /\ pc = "returned"
    /\ previous = NoRun
    /\ previous' = [results |-> results, stamps |-> stamps]
    /\ results' = NoTables
    /\ stamps' = NoTables
    /\ pc' = "clean_retail_sales"
    /\ UNCHANGED <<extracted, error, now, bq, merge, load, pipeline, dag>>

NextTwice ==
    \/ Next
    \/ Tick
    \/ Rerun

---------------------------------------------------------------------------
(* Inputs: texts as they stand in the sources *)

T_2023_01_15 == <<50, 48, 50, 51, 45, 48, 49, 45, 49, 53>>    \* '2023-01-15'
T_2023_02_10 == <<50, 48, 50, 51, 45, 48, 50, 45, 49, 48>>    \* '2023-02-10'
T_2023_02_30 == <<50, 48, 50, 51, 45, 48, 50, 45, 51, 48>>    \* '2023-02-30'
T_2024_02_29 == <<50, 48, 50, 52, 45, 48, 50, 45, 50, 57>>    \* '2024-02-29'
T_2024_12_31 == <<50, 48, 50, 52, 45, 49, 50, 45, 51, 49>>    \* '2024-12-31'
T_na == <<110, 47, 97>>    \* 'n/a'
T_abc == <<97, 98, 99>>    \* 'abc'
T_3 == <<51>>    \* '3'
T_minus1 == <<45, 49>>    \* '-1'
T_x == <<120>>    \* 'x'
T_5 == <<53>>    \* '5'
T_Male == <<77, 97, 108, 101>>    \* 'Male'
T_male == <<109, 97, 108, 101>>    \* 'male'
T_female_sp == <<32, 102, 101, 109, 97, 108, 101, 32>>    \* ' female '
T_Female == <<70, 101, 109, 97, 108, 101>>    \* 'Female'
T_FEMALE == <<70, 69, 77, 65, 76, 69>>    \* 'FEMALE'
T_electronics == <<101, 108, 101, 99, 116, 114, 111, 110, 105, 99, 115>>    \* 'electronics'
T_Electronics == <<69, 108, 101, 99, 116, 114, 111, 110, 105, 99, 115>>    \* 'Electronics'
T_Clothing == <<67, 108, 111, 116, 104, 105, 110, 103>>    \* 'Clothing'
T_clothing_sp == <<99, 108, 111, 116, 104, 105, 110, 103, 32>>    \* 'clothing '
T_Beauty == <<66, 101, 97, 117, 116, 121>>    \* 'Beauty'
T_mens_clothing == <<109, 101, 110, 39, 115, 32, 99, 108, 111, 116, 104, 105, 110, 103>>    \* "men's clothing"
T_C1 == <<67, 49>>    \* 'C1'
T_C2 == <<67, 50>>    \* 'C2'
T_old == <<111, 108, 100>>    \* 'old'
T_Tv_sp == <<32, 84, 118, 32>>    \* ' Tv '

---------------------------------------------------------------------------
(* Inputs: the extracted data a run starts from *)

MaxRows == 2
MaxSales == 3

\* a raw sales row; its transaction_id is set from its position in the file
RawRow(date, customer_id, gender, age, product_category, quantity, price, total) ==
    [transaction_id |-> NaN, date |-> date, customer_id |-> customer_id,
     gender |-> gender, age |-> age, product_category |-> product_category,
     quantity |-> quantity, price_per_unit |-> price, total_amount |-> total]

\* the frames of at most n rows drawn from a set of rows, transaction_id being
\* the 1-based row number (a unique integer)
Frames(rowset, n) ==
    UNION {{[i \in 1..m |-> [f[i] EXCEPT !.transaction_id = Num(i)]] :
               f \in [1..m -> rowset]} : m \in 0..n}

Catalog ==
    <<[id |-> Num(1), title |-> Str(T_Tv_sp), price |-> Num(10),
       category |-> Str(T_electronics), rating_rate |-> Num(4)]>>

\* rows that differ in their date and their three measures: a sale of 2 units
\* with every price and total, a sale with every quantity, a sale with every date
MeasureRows ==
    {RawRow(Str(T_2023_01_15), Str(T_C1), Str(T_Male), Num(30), Str(T_Clothing),
            Num(2), p, t) :
        p \in {Str(T_5), Str(T_x)}, t \in {Num(10), Num(7), Str(T_x)}}
    \cup
    {RawRow(Str(T_2023_01_15), Str(T_C1), Str(T_Male), Num(30), Str(T_Clothing),
            q, Num(5), Num(10)) :
        q \in {Num(0), Str(T_minus1), Str(T_abc)}}
    \cup
    {RawRow(d, Str(T_C1), Str(T_Male), Num(30), Str(T_Clothing), Num(2), Num(5), Num(10)) :
        d \in {Str(T_2023_02_30), Str(T_na), NaN}}

\* rows that differ in their age, with a sound and with a negative quantity, and
\* with texts that are or are not yet in their standard form
AgeRows ==
    {RawRow(Str(T_2023_01_15), Str(T_C1), Str(T_Male), a, Str(T_Clothing),
            Num(2), Num(5), Num(10)) :
        a \in {Num(17), Num(18), Num(100), Num(150), NaN, Str(T_old)}}
    \cup
    {RawRow(Str(T_2023_01_15), Str(T_C2), Str(T_female_sp), Num(150), Str(T_clothing_sp),
            q, Num(5), Num(10)) :
        q \in {Num(2), Num(0 - 1)}}
    \cup
    {RawRow(Str(T_2023_02_10), Str(T_C2), NaN, Num(16), NaN, Num(2), Num(5), Num(10))}

\* sales of two customers and of an unknown customer, in three months of two
\* years, in three categories, and a return (a negative quantity)
SalesRows ==
    {RawRow(Str(T_2023_01_15), Str(T_C1), Str(T_Male), Num(30), Str(T_Clothing),
            Num(2), Num(5), Num(10)),
     RawRow(Str(T_2023_01_15), Str(T_C2), Str(T_female_sp), Num(40), Str(T_electronics),
            Num(1), Num(7), Num(7)),
     RawRow(Str(T_2023_02_10), Str(T_C1), Str(T_Female), Num(45), Str(T_Clothing),
            Num(3), Num(5), Num(15)),
     RawRow(Str(T_2024_02_29), Str(T_C2), Str(T_male), Num(40), Str(T_Beauty),
            Num(2), Num(5), Num(10)),
     RawRow(Str(T_2023_02_10), NaN, Str(T_Male), Num(30), Str(T_electronics),
            Num(1), Num(7), Num(7)),
     RawRow(Str(T_2023_01_15), Str(T_C1), NaN, NaN, Str(T_clothing_sp),
            Num(1), Num(5), Num(5)),
     RawRow(Str(T_2023_02_10), Str(T_C2), Str(T_Female), Num(150), Str(T_Clothing),
            Num(0 - 1), Num(5), Num(0 - 5))}

CategoryLists == {<<>>, <<T_electronics>>, <<T_mens_clothing, T_clothing_sp>>}

InitWith(frames, categories) ==
    /\ extracted \in {[retail_sales |-> f, sales_columns |-> RequiredColumns,
                       api_products |-> Catalog, api_categories |-> c] :
                        f \in frames, c \in categories}
    /\ pc = "clean_retail_sales"
    /\ results = NoTables
    /\ error = "none"
    /\ now = 0
    /\ stamps = NoTables
    /\ previous = NoRun
    /\ bq = NoTables
    /\ merge = MergeIdle
    /\ load = LoadIdle
    /\ pipeline = PipelineIdle
    /\ dag = DagIdle

\* sales for the marts: three months of two years, two categories, both
\* genders, a sale without a gender, and free items (a price of 0)
MartRows ==
    {RawRow(Str(T_2023_01_15), Str(T_C1), Str(T_Female), Num(30), Str(T_Clothing),
            Num(1), Num(7), Num(7)),
     RawRow(Str(T_2023_01_15), Str(T_C1), Str(T_Female), Num(30), Str(T_Clothing),
            Num(1), Num(0), Num(0)),
     RawRow(Str(T_2023_02_10), Str(T_C2), Str(T_Male), Num(40), Str(T_Electronics),
            Num(3), Num(5), Num(15)),
     RawRow(Str(T_2023_02_10), Str(T_C2), Str(T_Male), Num(40), Str(T_Electronics),
            Num(2), Num(0), Num(0)),
     RawRow(Str(T_2024_02_29), Str(T_C2), Str(T_Male), Num(40), Str(T_Clothing),
            Num(2), Num(5), Num(10)),
     RawRow(Str(T_2024_02_29), Str(T_C1), NaN, Num(30), Str(T_Electronics),
            Num(1), Num(5), Num(5))}

\* two sales of two customers in two categories, and a sale with a text age
TwiceRows ==
    {RawRow(Str(T_2023_01_15), Str(T_C1), Str(T_Male), Num(30), Str(T_Clothing),
            Num(2), Num(5), Num(10)),
     RawRow(Str(T_2023_02_10), Str(T_C2), Str(T_female_sp), Num(40), Str(T_electronics),
            Num(1), Num(7), Num(7)),
     RawRow(Str(T_2023_02_10), Str(T_C2), Str(T_Female), Str(T_old), Str(T_Clothing),
            Num(1), Num(7), Num(7)),
     RawRow(Str(T_2023_02_10), Str(T_C2), Str(T_Female), Num(40), NaN,
            Num(1), Num(7), Num(7))}

\* a sound sale, a return, a sale without a gender and a sale with a text age
ColumnRows ==
    {RawRow(Str(T_2023_01_15), Str(T_C1), Str(T_Male), Num(30), Str(T_Clothing),
            Num(2), Num(5), Num(10)),
     RawRow(Str(T_2023_01_15), Str(T_C1), Str(T_Male), Num(30), Str(T_Clothing),
            Num(0 - 1), Num(5), Num(0 - 5)),
     RawRow(Str(T_2023_02_10), Str(T_C2), NaN, Num(40), Str(T_electronics),
            Num(1), Num(7), Num(7)),
     RawRow(Str(T_2023_02_10), Str(T_C2), Str(T_Female), Str(T_old), Str(T_Clothing),
            Num(1), Num(7), Num(7))}

\* sales of customer C1, whose gender changes, and of customer C2
MergeRows ==
    {RawRow(Str(T_2023_01_15), Str(T_C1), Str(T_Male), Num(30), Str(T_Clothing),
            Num(2), Num(5), Num(10)),
     RawRow(Str(T_2023_02_10), Str(T_C1), Str(T_Female), Num(30), Str(T_Clothing),
            Num(2), Num(5), Num(10)),
     RawRow(Str(T_2023_02_10), Str(T_C2), Str(T_Male), Num(40), Str(T_Clothing),
            Num(1), Num(7), Num(7))}

\* the customer dimensions transform_all makes of them
MergeCandidates ==
    {build_dim_customer(clean_retail_sales(f).rows) : f \in Frames(MergeRows, MaxRows)}

InitMeasures == InitWith(Frames(MeasureRows, MaxRows), {<<T_electronics>>})
InitAges == InitWith(Frames(AgeRows, MaxRows), {<<T_electronics>>})
InitSales == InitWith(Frames(SalesRows, MaxSales), CategoryLists)
\* frames that lack one column, and the same frames with every column
InitColumns ==
    /\ extracted \in
          {[retail_sales |-> [i \in 1..Len(f) |-> [c \in DOMAIN f[i] |->
                                 IF c \in cols THEN f[i][c] ELSE NaN]],
            sales_columns |-> cols,
            api_products |-> Catalog, api_categories |-> <<T_electronics>>] :
              f \in Frames(ColumnRows, MaxRows),
              cols \in {RequiredColumns} \cup {RequiredColumns \ {c} : c \in RequiredColumns}}
    /\ pc = "clean_retail_sales"
    /\ results = NoTables
    /\ error = "none"
    /\ now = 0
    /\ stamps = NoTables
    /\ previous = NoRun
    /\ bq = NoTables
    /\ merge = MergeIdle
    /\ load = LoadIdle
    /\ pipeline = PipelineIdle
    /\ dag = DagIdle

InitTwice == InitWith(Frames(TwiceRows, MaxRows), {<<T_electronics>>})
InitMarts == InitWith(Frames(MartRows, MaxSales), {<<T_electronics>>})

\* build_fact_sales called with dimensions that may lack a row: the tables of a
\* run up to the fact builder, one customer row and one category row being left
\* out of the dimensions supplied (0 leaves none out)
WithoutRow(table, k) == SelectRows(table, (1..Len(table)) \ {k})

FactCallTables(frame, categories, drop_customer, drop_category) ==
    LET stg == clean_retail_sales(frame).rows
    IN  ("stg_retail_sales" :> stg)
        @@ ("stg_api_products" :> clean_api_products(Catalog).rows)
        @@ ("dim_date" :> build_dim_date(stg).rows)
        @@ ("dim_customer" :> WithoutRow(build_dim_customer(stg), drop_customer))
        @@ ("dim_product" :> build_dim_product(clean_api_products(Catalog).rows, stg))
        @@ ("dim_product_category" :>
               WithoutRow(build_dim_product_category(stg, categories).rows, drop_category))

InitFactCall ==
    /\ extracted \in {[retail_sales |-> f, sales_columns |-> RequiredColumns,
                       api_products |-> Catalog, api_categories |-> <<T_electronics>>] :
                         f \in {g \in Frames(SalesRows, MaxRows) :
                                  /\ clean_retail_sales(g).err = "none"
                                  /\ clean_retail_sales(g).rows # <<>>}}
    /\ \E dc \in 0..MaxRows, dk \in 0..MaxRows :
          results = FactCallTables(extracted.retail_sales, extracted.api_categories, dc, dk)
    /\ pc = "build_fact_sales"
    /\ error = "none"
    /\ now = 0
    /\ stamps = [t \in {"dim_customer", "dim_product", "dim_product_category"} |-> 0]
    /\ previous = NoRun
    /\ bq = NoTables
    /\ merge = MergeIdle
    /\ load = LoadIdle
    /\ pipeline = PipelineIdle
    /\ dag = DagIdle

NextFactCall ==
    \/ BuildFactSales
    \/ BuildMartSalesPerformance
    \/ BuildMartCategoryAnalysis
    \/ Return

SpecMeasures == InitMeasures /\ [][Next]_vars
SpecAges == InitAges /\ [][Next]_vars
SpecSales == InitSales /\ [][Next]_vars
SpecFactCall == InitFactCall /\ [][NextFactCall]_vars
SpecMarts == InitMarts /\ [][Next]_vars
SpecTwice == InitTwice /\ [][NextTwice]_vars
SpecColumns == InitColumns /\ [][Next]_vars

---------------------------------------------------------------------------
(* scd_type2_merge_customer: one step per call on the BigQuery client *)

\* the number of merges a run of the model makes
MaxMerges == 2

\* DIM_CUSTOMER and the temporary table f"{table_id}_staging"
DimCustomerTable == "dim_customer"
StagingTable == "dim_customer_staging"

\* load_table(..., 'WRITE_TRUNCATE'): the rows of df replace the table
LoadTable(tables, table_id, df) == (table_id :> df) @@ tables

\* CURRENT_TIMESTAMP() at the reading t of the clock
ClockTs(t) == [k |-> "clock", t |-> t]

\* a variant of ExpireChanged that does not compare row_hash: every current row
\* whose customer_id is in the staging table is expired
ExpireEveryCandidate(target, staging, t) ==
    [i \in 1..Len(target) |->
       IF /\ target[i].is_current
          /\ \E j \in 1..Len(staging) : staging[j].customer_id = target[i].customer_id
       THEN [target[i] EXCEPT !.effective_end_date = ClockTs(t), !.is_current = FALSE]
       ELSE target[i]]

\* Step 1 of the merge query: every current row of the target whose customer_id
\* has a staging row with another row_hash gets effective_end_date =
\* CURRENT_TIMESTAMP() and is_current = FALSE
ExpireChanged(target, staging, t) ==
    [i \in 1..Len(target) |->
       IF /\ target[i].is_current
          /\ \E j \in 1..Len(staging) :
                /\ staging[j].customer_id = target[i].customer_id
                /\ staging[j].row_hash # target[i].row_hash
       THEN [target[i] EXCEPT !.effective_end_date = ClockTs(t), !.is_current = FALSE]
       ELSE target[i]]

\* a variant of InsertNew whose INSERT selects no row
InsertNone(target, staging) == target

\* Step 2 of the merge query: the staging rows without a current target row of
\* the same customer_id and row_hash are inserted as they are
InsertNew(target, staging) ==
    target \o SelectRows(staging,
                  {j \in 1..Len(staging) :
                     ~\E i \in 1..Len(target) :
                         /\ target[i].customer_id = staging[j].customer_id
                         /\ target[i].row_hash = staging[j].row_hash
                         /\ target[i].is_current})

\* the candidate rows of the running call: transformed_data['dim_customer']
df_new == results["dim_customer"]

MergeAt(p) == merge' = [merge EXCEPT !.pc = p]
MergeEnds(outcome) == merge' = [merge EXCEPT !.pc = "idle", !.outcome = outcome]

\* load_all calls scd_type2_merge_customer with the customer dimension of a run
MergeCall ==
    /\ merge.pc = "idle"
    /\ merge.calls < MaxMerges
    /\ \E df \in MergeCandidates : results' = ("dim_customer" :> df)
    /\ merge' = [pc |-> "get_table", outcome |-> "running", calls |-> merge.calls + 1]
    /\ UNCHANGED <<extracted, pc, error, now, stamps, previous, bq, load, pipeline, dag>>

\* client.get_table(table_id): NotFound means the first load
MergeGetTable ==
    /\ merge.pc = "get_table"
    /\ MergeAt(IF DimCustomerTable \in DOMAIN bq THEN "load_staging" ELSE "first_load")
    /\ UNCHANGED <<extracted, pc, results, error, now, stamps, previous, bq, load, pipeline, dag>>

\* the first load inserts every candidate; a failed load job raises
MergeFirstLoad ==
    /\ merge.pc = "first_load"
    /\ \E ok \in BOOLEAN :
          IF ok THEN /\ bq' = LoadTable(bq, DimCustomerTable, df_new)
                     /\ MergeEnds("returned")
          ELSE /\ MergeEnds("raised")
               /\ UNCHANGED bq
    /\ UNCHANGED <<extracted, pc, results, error, now, stamps, previous, load, pipeline, dag>>

\* the candidates are loaded to the staging table; a failed load job raises
MergeLoadStaging ==
    /\ merge.pc = "load_staging"
    /\ \E ok \in BOOLEAN :
          IF ok THEN /\ bq' = LoadTable(bq, StagingTable, df_new)
                     /\ MergeAt("expire")
          ELSE /\ MergeEnds("raised")
               /\ UNCHANGED bq
    /\ UNCHANGED <<extracted, pc, results, error, now, stamps, previous, load, pipeline, dag>>

\* the first query of the merge; a failed query leads to the fallback
MergeExpire ==
    /\ merge.pc = "expire"
    /\ \E ok \in BOOLEAN :
          IF ok THEN /\ bq' = LoadTable(bq, DimCustomerTable,
                                        ExpireChanged(bq[DimCustomerTable],
                                                      bq[StagingTable], now))
                     /\ MergeAt("insert")
          ELSE /\ MergeAt("fallback")
               /\ UNCHANGED bq
    /\ UNCHANGED <<extracted, pc, results, error, now, stamps, previous, load, pipeline, dag>>

\* the second query of the merge; a failed query leads to the fallback
MergeInsert ==
    /\ merge.pc = "insert"
    /\ \E ok \in BOOLEAN :
          IF ok THEN /\ bq' = LoadTable(bq, DimCustomerTable,
                                        InsertNew(bq[DimCustomerTable], bq[StagingTable]))
                     /\ MergeAt("delete_staging")
          ELSE /\ MergeAt("fallback")
               /\ UNCHANGED bq
    /\ UNCHANGED <<extracted, pc, results, error, now, stamps, previous, load, pipeline, dag>>

\* except Exception: the candidates replace the whole target; a failed load job
\* raises out of the handler, before the staging table is deleted
MergeFallback ==
    /\ merge.pc = "fallback"
    /\ \E ok \in BOOLEAN :
          IF ok THEN /\ bq' = LoadTable(bq, DimCustomerTable, df_new)
                     /\ MergeAt("delete_staging")
          ELSE /\ MergeEnds("raised")
               /\ UNCHANGED bq
    /\ UNCHANGED <<extracted, pc, results, error, now, stamps, previous, load, pipeline, dag>>

\* client.delete_table(temp_table), whose failure is swallowed
MergeDeleteStaging ==
    /\ merge.pc = "delete_staging"
    /\ \E ok \in BOOLEAN :
          bq' = IF ok THEN [t \in DOMAIN bq \ {StagingTable} |-> bq[t]] ELSE bq
    /\ MergeEnds("returned")
    /\ UNCHANGED <<extracted, pc, results, error, now, stamps, previous, load, pipeline, dag>>

NextMerge ==
    \/ MergeCall
    \/ MergeGetTable
    \/ MergeFirstLoad
    \/ MergeLoadStaging
    \/ MergeExpire
    \/ MergeInsert
    \/ MergeFallback
    \/ MergeDeleteStaging
    \/ Tick

\* the warehouse is empty and no transform is running
InitMerge ==
    /\ extracted = [retail_sales |-> <<>>, sales_columns |-> RequiredColumns,
                    api_products |-> Catalog, api_categories |-> <<>>]
    /\ pc = "returned"
    /\ results = NoTables
    /\ error = "none"
    /\ now = 0
    /\ stamps = NoTables
    /\ previous = NoRun
    /\ bq = NoTables
    /\ merge = MergeIdle
    /\ load = LoadIdle
    /\ pipeline = PipelineIdle
    /\ dag = DagIdle

SpecMerge == InitMerge /\ [][NextMerge]_vars

---------------------------------------------------------------------------
(* load_all: one step per call on the BigQuery client *)

\* the tables in the order load_all writes them
LoadOrder ==
    <<"stg_retail_sales", "stg_api_products", "dim_date", "dim_customer", "dim_product",
      "dim_product_category", "fact_sales", "mart_sales_performance",
      "mart_category_analysis">>

\* the tables written by load_table; dim_customer goes through the merge
FullRefreshTables == {LoadOrder[i] : i \in 1..Len(LoadOrder)} \ {DimCustomerTable}

\* the step after the write of a table
NextLoad(name) ==
    LET i == CHOOSE k \in 1..Len(LoadOrder) : LoadOrder[k] = name
    IN  IF i = Len(LoadOrder) THEN "return" ELSE LoadOrder[i + 1]

\* stg_api.rename(columns={'id': 'api_product_id', 'title': 'product_name', ...})
RenameApiColumns(df) ==
    [i \in 1..Len(df) |->
       [api_product_id |-> df[i].id,
        product_name |-> df[i].title,
        api_price |-> df[i].price,
        product_category |-> df[i].category,
        rating_rate |-> df[i].rating_rate]]

\* the frame load_all hands to load_table for a table of transformed_data
LoadFrame(data, name) ==
    IF name = "stg_api_products" THEN RenameApiColumns(data[name]) ELSE data[name]

LoadAt(p) == load' = [load EXCEPT !.pc = p]
LoadEnds(outcome) == load' = [load EXCEPT !.pc = "idle", !.outcome = outcome]

\* load_all(transformed_data) is entered
LoadAllStarts == load' = [pc |-> "ensure_dataset", outcome |-> "running", stats |-> NoTables]

\* load_all is called with the tables transform_all returned
LoadAllCall ==
    /\ load = LoadIdle
    /\ pc = "returned"
    /\ LoadAllStarts
    /\ UNCHANGED <<extracted, pc, results, error, now, stamps, previous, bq, merge,
                   pipeline, dag>>

\* get_bq_client() and ensure_dataset_exists(client); without credentials or
\* without the right to create the dataset the call raises
LoadEnsureDataset ==
    /\ load.pc = "ensure_dataset"
    /\ \E ok \in BOOLEAN : IF ok THEN LoadAt(LoadOrder[1]) ELSE LoadEnds("raised")
    /\ UNCHANGED <<extracted, pc, results, error, now, stamps, previous, bq, merge,
                   pipeline, dag>>

\* stats[name] = load_table(client, transformed_data[name], ...) with the
\* default WRITE_TRUNCATE; a failed load job raises out of load_all
LoadAllTable(name) ==
    /\ load.pc = name
    /\ \E ok \in BOOLEAN :
          IF ok
          THEN /\ bq' = LoadTable(bq, name, LoadFrame(results, name))
               /\ load' = [load EXCEPT !.pc = NextLoad(name),
                                       !.stats = (name :> Len(LoadFrame(results, name))) @@ @]
          ELSE /\ LoadEnds("raised")
               /\ UNCHANGED bq
    /\ UNCHANGED <<extracted, pc, results, error, now, stamps, previous, merge,
                   pipeline, dag>>

\* scd_type2_merge_customer(client, transformed_data['dim_customer']) is entered
LoadAllMergeCustomer ==
    /\ load.pc = DimCustomerTable
    /\ merge.pc = "idle"
    /\ merge' = [pc |-> "get_table", outcome |-> "running", calls |-> merge.calls + 1]
    /\ LoadAt("merge_customer")
    /\ UNCHANGED <<extracted, pc, results, error, now, stamps, previous, bq,
                   pipeline, dag>>

\* the merge is over: stats['dim_customer'] = len(transformed_data['dim_customer']),
\* or its exception leaves load_all
LoadAllMergeCustomerEnds ==
    /\ load.pc = "merge_customer"
    /\ merge.pc = "idle"
    /\ IF merge.outcome = "returned"
       THEN load' = [load EXCEPT !.pc = NextLoad(DimCustomerTable),
                                 !.stats = (DimCustomerTable :> Len(df_new)) @@ @]
       ELSE LoadEnds("raised")
    /\ UNCHANGED <<extracted, pc, results, error, now, stamps, previous, bq, merge,
                   pipeline, dag>>

\* return stats
LoadAllReturn ==
    /\ load.pc = "return"
    /\ LoadEnds("returned")
    /\ UNCHANGED <<extracted, pc, results, error, now, stamps, previous, bq, merge,
                   pipeline, dag>>

\* the steps of load_all, the merge it calls included
LoadAllSteps ==
    \/ LoadEnsureDataset
    \/ \E name \in FullRefreshTables : LoadAllTable(name)
    \/ LoadAllMergeCustomer
    \/ MergeGetTable
    \/ MergeFirstLoad
    \/ MergeLoadStaging
    \/ MergeExpire
    \/ MergeInsert
    \/ MergeFallback
    \/ MergeDeleteStaging
    \/ LoadAllMergeCustomerEnds
    \/ LoadAllReturn

NextLoadAll ==
    \/ LoadAllCall
    \/ LoadAllSteps

\* transform_all as one call on data no builder raises on: the two cleaned
\* frames and the four dimensions, then the fact table, then the marts
DimensionTables(e) ==
    LET stg == clean_retail_sales(e.retail_sales).rows
        api == clean_api_products(e.api_products).rows
    IN  ("stg_retail_sales" :> stg)
        @@ ("stg_api_products" :> api)
        @@ ("dim_date" :> build_dim_date(stg).rows)
        @@ ("dim_customer" :> build_dim_customer(stg))
        @@ ("dim_product" :> build_dim_product(api, stg))
        @@ ("dim_product_category" :>
               build_dim_product_category(stg, e.api_categories).rows)

FactTables(t) ==
    ("fact_sales" :> build_fact_sales(t["stg_retail_sales"], t["dim_customer"],
                                      t["dim_product_category"], t["dim_date"])) @@ t

MartTables(t) ==
    ("mart_sales_performance" :>
        build_mart_sales_performance(t["fact_sales"], t["dim_date"], t["dim_customer"]))
    @@ ("mart_category_analysis" :>
           build_mart_category_analysis(t["fact_sales"], t["dim_product_category"],
                                        t["dim_customer"]))
    @@ t

\* each stage is built once and handed on as a value
transform_all(e) ==
    CHOOSE t \in {MartTables(f) : f \in {FactTables(d) : d \in {DimensionTables(e)}}} : TRUE

\* the catalog after a change of price
CatalogRepriced ==
    <<[id |-> Num(1), title |-> Str(T_Tv_sp), price |-> Num(12),
       category |-> Str(T_electronics), rating_rate |-> Num(4)]>>

\* a frame as read from the file: transaction_id is the 1-based row number
FrameOf(rows) == [i \in 1..Len(rows) |-> [rows[i] EXCEPT !.transaction_id = Num(i)]]

\* the sales file of one day, and the file of the day after: customer C1 under
\* another gender, and a sale of customer C2
DayOneSales ==
    FrameOf(<<RawRow(Str(T_2023_01_15), Str(T_C1), Str(T_Male), Num(30), Str(T_Clothing),
                     Num(2), Num(5), Num(10))>>)
DayTwoSales ==
    FrameOf(<<RawRow(Str(T_2023_02_10), Str(T_C1), Str(T_Female), Num(30), Str(T_Clothing),
                     Num(2), Num(5), Num(10)),
              RawRow(Str(T_2023_02_10), Str(T_C2), Str(T_Male), Num(40), Str(T_Clothing),
                     Num(1), Num(7), Num(7))>>)

\* what extract_all returns on either day, with either catalog
LoadExtracts ==
    {[retail_sales |-> f, sales_columns |-> RequiredColumns,
      api_products |-> c, api_categories |-> <<T_electronics>>] :
        f \in {DayOneSales, DayTwoSales}, c \in {Catalog, CatalogRepriced}}

\* the warehouse after a load_all that failed nowhere
Loaded(data) == [name \in DOMAIN data |-> LoadFrame(data, name)]

\* transform_all has returned; the warehouse is empty or holds an earlier load
InitLoad ==
    /\ extracted \in LoadExtracts
    /\ pc = "returned"
    /\ results = transform_all(extracted)
    /\ error = "none"
    /\ now = 0
    /\ stamps = [t \in DOMAIN results \ {"stg_retail_sales", "stg_api_products",
                                         "dim_date"} |-> 0]
    /\ previous = NoRun
    /\ bq \in {NoTables} \cup {Loaded(transform_all(e)) : e \in LoadExtracts}
    /\ merge = MergeIdle
    /\ load = LoadIdle
    /\ pipeline = PipelineIdle
    /\ dag = DagIdle

SpecLoad == InitLoad /\ [][NextLoadAll]_vars

---------------------------------------------------------------------------
(* run_pipeline: extract, transform, load inside one try block *)

\* results['stages'][stage] = {'status': status, ...}
StageSet(stage, status) == (stage :> status) @@ pipeline.stages

\* a sales file with its header and no row
NoSales == <<>>

\* what extract_all may return: the files of either day with either catalog,
\* or a sales file without rows
PipelineExtracts ==
    LoadExtracts \cup
    {[retail_sales |-> NoSales, sales_columns |-> RequiredColumns,
      api_products |-> Catalog, api_categories |-> <<T_electronics>>]}

\* a variant of PipelineFails without the except branch: the exception leaves
\* run_pipeline and the status stays 'running'
PipelineRaises(e) ==
    pipeline' = [pipeline EXCEPT !.pc = "returned", !.escaped = TRUE]

\* except Exception as e: status 'failed', error = str(e), return results
PipelineFails(e) ==
    pipeline' = [pipeline EXCEPT !.pc = "returned", !.status = "failed", !.error = e]

\* run_pipeline(skip_load) up to the try block: status 'running', no stage yet
RunPipeline ==
    /\ pipeline = PipelineIdle
    /\ \E skip \in BOOLEAN :
          pipeline' = [pipeline EXCEPT !.pc = "extract", !.skip_load = skip,
                                       !.status = "running"]
    /\ UNCHANGED <<extracted, pc, results, error, now, stamps, previous, bq, merge,
                   load, dag>>

\* extracted_data = extract_all(): a missing file or an unreachable API raises;
\* otherwise the extract stage is a success and transform_all is entered
PipelineExtract ==
    /\ pipeline.pc = "extract"
    /\ \/ /\ PipelineFails("ExtractError")
          /\ UNCHANGED <<extracted, pc, results, error, stamps>>
       \/ /\ extracted' \in PipelineExtracts
          /\ pipeline' = [pipeline EXCEPT !.pc = "transform",
                                          !.stages = StageSet("extract", "success")]
          /\ pc' = "clean_retail_sales"
          /\ results' = NoTables
          /\ error' = "none"
          /\ stamps' = NoTables
    /\ UNCHANGED <<now, previous, bq, merge, load, dag>>

\* transform_all is over: its exception goes to the except branch; otherwise
\* the transform stage is a success and load_all is entered, or skipped
PipelineTransformEnds ==
    /\ pipeline.pc = "transform"
    /\ pc \in {"returned", "raised"}
    /\ IF pc = "raised"
       THEN PipelineFails(error) /\ UNCHANGED load
       ELSE IF pipeline.skip_load
       THEN /\ pipeline' = [pipeline EXCEPT
                               !.pc = "summary",
                               !.stages = ("load" :> "skipped")
                                          @@ StageSet("transform", "success")]
            /\ UNCHANGED load
       ELSE /\ pipeline' = [pipeline EXCEPT !.pc = "load",
                                            !.stages = StageSet("transform", "success")]
            /\ LoadAllStarts
    /\ UNCHANGED <<extracted, pc, results, error, now, stamps, previous, bq, merge, dag>>

\* load_all is over: its exception goes to the except branch; otherwise the
\* load stage is a success
PipelineLoadEnds ==
    /\ pipeline.pc = "load"
    /\ load.pc = "idle"
    /\ IF load.outcome = "raised"
       THEN PipelineFails("LoadError")
       ELSE pipeline' = [pipeline EXCEPT !.pc = "summary",
                                         !.stages = StageSet("load", "success")]
    /\ UNCHANGED <<extracted, pc, results, error, now, stamps, previous, bq, merge,
                   load, dag>>

\* results['status'] = 'success'; return results
PipelineReturn ==
    /\ pipeline.pc = "summary"
    /\ pipeline' = [pipeline EXCEPT !.pc = "returned", !.status = "success"]
    /\ UNCHANGED <<extracted, pc, results, error, now, stamps, previous, bq, merge,
                   load, dag>>

NextPipeline ==
    \/ RunPipeline
    \/ PipelineExtract
    \/ Next
    \/ PipelineTransformEnds
    \/ LoadAllSteps
    \/ PipelineLoadEnds
    \/ PipelineReturn

\* run_pipeline has not been called; the warehouse is empty or holds an
\* earlier load
InitPipeline ==
    /\ extracted = [retail_sales |-> NoSales, sales_columns |-> RequiredColumns,
                    api_products |-> Catalog, api_categories |-> <<>>]
    /\ pc = "idle"
    /\ results = NoTables
    /\ error = "none"
    /\ now = 0
    /\ stamps = NoTables
    /\ previous = NoRun
    /\ bq \in {NoTables, Loaded(transform_all(CHOOSE e \in LoadExtracts :
                                                /\ e.retail_sales = DayOneSales
                                                /\ e.api_products = Catalog))}
    /\ merge = MergeIdle
    /\ load = LoadIdle
    /\ pipeline = PipelineIdle
    /\ dag = DagIdle

SpecPipeline == InitPipeline /\ [][NextPipeline]_vars

---------------------------------------------------------------------------
(* The retail_etl_pipeline DAG: task instances under the Airflow scheduler *)

\* DEFAULT_ARGS['retries']
Retries == 2

\* a >> b: the tasks directly upstream of a task
Upstream(t) ==
    CASE t = "health_check" -> {}
      [] t \in {"extract_retail_sales", "extract_api_products", "extract_api_categories"}
            -> {"health_check"}
      [] t = "validate_extract"
            -> {"extract_retail_sales", "extract_api_products", "extract_api_categories"}
      [] t = "transform_data" -> {"validate_extract"}
      [] t = "validate_transform" -> {"transform_data"}
      [] t = "load_to_bigquery" -> {"validate_transform"}
      [] t = "validate_load" -> {"load_to_bigquery"}
      [] t = "pipeline_summary" -> {"validate_load"}
      [] t = "cleanup_old_logs" -> {"pipeline_summary"}

\* the tasks declared with trigger_rule=TriggerRule.ALL_DONE; the others have
\* the default rule, all_success
AllDoneTasks == {"pipeline_summary", "cleanup_old_logs"}

\* the states in which a task instance is over
Finished == {"success", "failed", "skipped", "upstream_failed"}

StateOf(t) == dag.state[t]
\* a task instance gets a state; its attempts are counted while it is not over
DagSet(t, s) == [dag EXCEPT !.state[t] = s, !.tries[t] = IF s \in Finished THEN 0 ELSE @]

\* what the scheduler makes of a task instance without a state.  all_success:
\* upstream_failed as soon as an upstream task failed, skipped as soon as one
\* was skipped, run when all succeeded.  all_done: run when all are over.
TriggerState(t) ==
    IF t \in AllDoneTasks
    THEN IF \A u \in Upstream(t) : StateOf(u) \in Finished THEN "running" ELSE "none"
    ELSE IF \E u \in Upstream(t) : StateOf(u) \in {"failed", "upstream_failed"}
    THEN "upstream_failed"
    ELSE IF \E u \in Upstream(t) : StateOf(u) = "skipped"
    THEN "skipped"
    ELSE IF \A u \in Upstream(t) : StateOf(u) = "success"
    THEN "running"
    ELSE "none"

\* the scheduler gives a task instance its state: it is run, or it ends as
\* skipped or upstream_failed without being run
Schedule(t) ==
    /\ StateOf(t) = "none"
    /\ TriggerState(t) # "none"
    /\ dag' = [dag EXCEPT !.state[t] = TriggerState(t),
                          !.tries[t] = IF TriggerState(t) = "running" THEN 1 ELSE 0]
    /\ UNCHANGED <<extracted, pc, results, error, now, stamps, previous, bq, merge,
                   load, pipeline>>

\* a task instance waiting for its retry is run again
Retry(t) ==
    /\ StateOf(t) = "up_for_retry"
    /\ dag' = [dag EXCEPT !.state[t] = "running", !.tries[t] = @ + 1]
    /\ UNCHANGED <<extracted, pc, results, error, now, stamps, previous, bq, merge,
                   load, pipeline>>

\* the callable raised an exception that is neither AirflowFailException nor
\* AirflowSkipException: the task instance is retried until its retries are used
AfterException(d, t) ==
    [d EXCEPT !.state[t] = IF d.tries[t] <= Retries THEN "up_for_retry" ELSE "failed",
              !.tries[t] = IF d.tries[t] <= Retries THEN @ ELSE 0,
              !.step = "none"]

\* ti.xcom_push(key, value) and ti.xcom_pull(...) or default
Push(d, key, value) == [d EXCEPT !.xcom = (key :> value) @@ @]
Pull(key, default) == IF key \in DOMAIN dag.xcom THEN dag.xcom[key] ELSE default

\* task_health_check: AirflowFailException without the CSV file; an
\* unreachable API is a warning
HealthCheck ==
    /\ StateOf("health_check") = "running"
    /\ \E csv_ok \in BOOLEAN :
          dag' = DagSet("health_check", IF csv_ok THEN "success" ELSE "failed")
    /\ UNCHANGED <<extracted, pc, results, error, now, stamps, previous, bq, merge,
                   load, pipeline>>

\* the sales files extract_retail_sales may read
DagSales == {NoSales, DayOneSales, DayTwoSales}

\* task_extract_retail_sales: the row count goes to XCom; an exception of
\* extract_retail_sales leaves the callable
ExtractRetailSales ==
    /\ StateOf("extract_retail_sales") = "running"
    /\ \/ \E f \in DagSales :
             dag' = Push(DagSet("extract_retail_sales", "success"),
                         "retail_sales_rows", Len(f))
       \/ dag' = AfterException(dag, "extract_retail_sales")
    /\ UNCHANGED <<extracted, pc, results, error, now, stamps, previous, bq, merge,
                   load, pipeline>>

\* task_extract_api_products, task_extract_api_categories: the count goes to
\* XCom; on any exception 0 is pushed and AirflowSkipException raised
ExtractApi(t, key) ==
    /\ StateOf(t) = "running"
    /\ \/ dag' = Push(DagSet(t, "success"), key, Len(Catalog))
       \/ dag' = Push(DagSet(t, "skipped"), key, 0)
    /\ UNCHANGED <<extracted, pc, results, error, now, stamps, previous, bq, merge,
                   load, pipeline>>

ExtractApiProducts == ExtractApi("extract_api_products", "api_products_rows")
ExtractApiCategories == ExtractApi("extract_api_categories", "api_categories_count")

\* task_validate_extract: AirflowFailException when retail_sales has 0 rows, a
\* warning when the API products are empty
ValidateExtract ==
    /\ StateOf("validate_extract") = "running"
    /\ dag' = IF Pull("retail_sales_rows", 0) > 0
              THEN [DagSet("validate_extract", "success") EXCEPT
                       !.warned = ~(Pull("api_products_rows", 0) > 0)]
              ELSE DagSet("validate_extract", "failed")
    /\ UNCHANGED <<extracted, pc, results, error, now, stamps, previous, bq, merge,
                   load, pipeline>>

\* what extract_all may return inside a task
DagExtracts ==
    {[retail_sales |-> f, sales_columns |-> RequiredColumns,
      api_products |-> Catalog, api_categories |-> <<T_electronics>>] : f \in DagSales}

\* extracted = extract_all(); transformed = transform_all(extracted) in
\* task_transform_data and again in task_load_to_bigquery: an exception of
\* extract_all leaves the callable, otherwise transform_all is entered
TaskExtractAll(t) ==
    /\ StateOf(t) = "running"
    /\ dag.step = "none"
    /\ \/ /\ dag' = AfterException(dag, t)
          /\ UNCHANGED <<extracted, pc, results, error, stamps>>
       \/ /\ extracted' \in DagExtracts
          /\ pc' = "clean_retail_sales"
          /\ results' = NoTables
          /\ error' = "none"
          /\ stamps' = NoTables
          /\ dag' = [dag EXCEPT !.step = "transform", !.transforms = @ + 1]
    /\ UNCHANGED <<now, previous, bq, merge, load, pipeline>>

\* row_counts = {k: len(v) for k, v in transformed.items()}
RowCounts == [name \in DOMAIN results |-> Len(results[name])]

\* task_transform_data after transform_all: the row counts go to XCom; an
\* exception of transform_all leaves the callable
TransformDataEnds ==
    /\ StateOf("transform_data") = "running"
    /\ dag.step = "transform"
    /\ pc \in {"returned", "raised"}
    /\ dag' = IF pc = "raised"
              THEN AfterException(dag, "transform_data")
              ELSE [Push(DagSet("transform_data", "success"),
                         "transform_row_counts", RowCounts) EXCEPT !.step = "none"]
    /\ UNCHANGED <<extracted, pc, results, error, now, stamps, previous, bq, merge,
                   load, pipeline>>

\* actual = row_counts.get(table, 0)
Reported(table) ==
    LET row_counts == Pull("transform_row_counts", NoTables)
    IN  IF table \in DOMAIN row_counts THEN row_counts[table] ELSE 0

\* the tables whose count is below its minimum
Failures == {table \in DOMAIN dag.thresholds : Reported(table) < dag.thresholds[table]}

\* a variant of ValidateTransform that logs the failures and raises nothing
ValidateTransformLogsOnly ==
    /\ StateOf("validate_transform") = "running"
    /\ dag' = DagSet("validate_transform", "success")
    /\ UNCHANGED <<extracted, pc, results, error, now, stamps, previous, bq, merge,
                   load, pipeline>>

\* task_validate_transform: AirflowFailException when a table is below its
\* minimum
ValidateTransform ==
    /\ StateOf("validate_transform") = "running"
    /\ dag' = DagSet("validate_transform", IF Failures = {} THEN "success" ELSE "failed")
    /\ UNCHANGED <<extracted, pc, results, error, now, stamps, previous, bq, merge,
                   load, pipeline>>

\* task_load_to_bigquery after transform_all: load_all is entered with the
\* tables of this task's own transform_all
LoadTaskTransformEnds ==
    /\ StateOf("load_to_bigquery") = "running"
    /\ dag.step = "transform"
    /\ pc \in {"returned", "raised"}
    /\ IF pc = "raised"
       THEN dag' = AfterException(dag, "load_to_bigquery") /\ UNCHANGED load
       ELSE dag' = [dag EXCEPT !.step = "load"] /\ LoadAllStarts
    /\ UNCHANGED <<extracted, pc, results, error, now, stamps, previous, bq, merge,
                   pipeline>>

\* task_load_to_bigquery after load_all: the load statistics go to XCom; an
\* exception of load_all leaves the callable
LoadTaskLoadEnds ==
    /\ StateOf("load_to_bigquery") = "running"
    /\ dag.step = "load"
    /\ load.pc = "idle"
    /\ dag' = IF load.outcome = "raised"
              THEN AfterException(dag, "load_to_bigquery")
              ELSE [Push(DagSet("load_to_bigquery", "success"), "load_stats", load.stats)
                       EXCEPT !.step = "none"]
    /\ UNCHANGED <<extracted, pc, results, error, now, stamps, previous, bq, merge,
                   load, pipeline>>

\* task_validate_load swallows every exception, AirflowFailException included;
\* task_pipeline_summary and the cleanup command ('... || true') end well
RunsToSuccess(t) ==
    /\ t \in {"validate_load", "pipeline_summary", "cleanup_old_logs"}
    /\ StateOf(t) = "running"
    /\ dag' = DagSet(t, "success")
    /\ UNCHANGED <<extracted, pc, results, error, now, stamps, previous, bq, merge,
                   load, pipeline>>

NextDag ==
    \/ \E t \in TaskIds : Schedule(t)
    \/ \E t \in TaskIds : Retry(t)
    \/ HealthCheck
    \/ ExtractRetailSales
    \/ ExtractApiProducts
    \/ ExtractApiCategories
    \/ ValidateExtract
    \/ TaskExtractAll("transform_data")
    \/ Next
    \/ TransformDataEnds
    \/ ValidateTransform
    \/ TaskExtractAll("load_to_bigquery")
    \/ LoadTaskTransformEnds
    \/ LoadAllSteps
    \/ LoadTaskLoadEnds
    \/ \E t \in TaskIds : RunsToSuccess(t)

\* the minimums set through the Airflow Variables MIN_STG_RETAIL_ROWS,
\* MIN_DIM_CUSTOMER_ROWS, MIN_DIM_DATE_ROWS and MIN_FACT_SALES_ROWS, scaled
\* to the sales files of DagSales
ConfiguredThresholds ==
    [stg_retail_sales |-> 2, dim_customer |-> 1, dim_date |-> 365, fact_sales |-> 2]

\* a DAG run is created; the warehouse is empty
InitDag ==
    /\ extracted = [retail_sales |-> NoSales, sales_columns |-> RequiredColumns,
                    api_products |-> Catalog, api_categories |-> <<>>]
    /\ pc = "idle"
    /\ results = NoTables
    /\ error = "none"
    /\ now = 0
    /\ stamps = NoTables
    /\ previous = NoRun
    /\ bq = NoTables
    /\ merge = MergeIdle
    /\ load = LoadIdle
    /\ pipeline = PipelineIdle
    /\ dag = [DagIdle EXCEPT !.thresholds = ConfiguredThresholds]

SpecDag == InitDag /\ [][NextDag]_vars

---------------------------------------------------------------------------
(* Properties *)

Has(name) == name \in DOMAIN results
Raw == extracted.retail_sales
Stg == results["stg_retail_sales"]

\* the rows of a table whose column col holds v
RowsWith(table, col, v) == {j \in 1..Len(table) : table[j][col] = v}

\* C1: every row returned by clean_retail_sales has
\* total_amount == quantity * price_per_unit, whatever the source row carried,
\* rows whose price_per_unit or total_amount failed the numeric coercion included
C1_TotalIsQuantityTimesPrice ==
    Has("stg_retail_sales") =>
        \A i \in 1..Len(Stg) :
            FEq(Stg[i].total_amount, FMul(Stg[i].quantity, Stg[i].price_per_unit))

\* C2: every row returned by clean_retail_sales has quantity > 0 and
\* 18 <= age <= 100; a row with a missing age does not survive out of range
C2_QuantityPositiveAgeInRange ==
    Has("stg_retail_sales") =>
        \A i \in 1..Len(Stg) :
            /\ FGt(Stg[i].quantity, 0)
            /\ IsNum(Stg[i].age)
            /\ Stg[i].age.n >= 18
            /\ Stg[i].age.n <= 100

\* a raw row whose only defect is an age out of range: its date parses, its
\* measures are numbers that agree, its texts are in their standard form
OnlyAgeOutOfRange(row) ==
    /\ ToDatetime(row.date) # NaT
    /\ IsNum(row.quantity) /\ row.quantity.n > 0
    /\ IsNum(row.price_per_unit)
    /\ row.total_amount = Num(row.quantity.n * row.price_per_unit.n)
    /\ IsStr(row.customer_id)
    /\ IsStr(row.gender) /\ StrStripTitle(row.gender) = row.gender
    /\ IsStr(row.product_category)
    /\ StrStripTitle(row.product_category) = row.product_category
    /\ IsNum(row.age) /\ (row.age.n < 18 \/ row.age.n > 100)

NearestAgeBound(n) == IF n < 18 THEN 18 ELSE IF n > 100 THEN 100 ELSE n

\* C3: whenever clean_retail_sales returns, a raw row whose only defect is an
\* age out of range is in the output exactly once, with its age at the nearest
\* bound (18 below 18, 100 above 100) and every other field as it was (the date
\* as the timestamp it parses to)
C3_OutOfRangeAgeIsClamped ==
    Has("stg_retail_sales") =>
        \A i \in 1..Len(Raw) :
            OnlyAgeOutOfRange(Raw[i]) =>
                /\ Cardinality(RowsWith(Stg, "transaction_id", Raw[i].transaction_id)) = 1
                /\ \A j \in RowsWith(Stg, "transaction_id", Raw[i].transaction_id) :
                      /\ Stg[j].age = Num(NearestAgeBound(Raw[i].age.n))
                      /\ Stg[j].date = ToDatetime(Raw[i].date)
                      /\ Stg[j].customer_id = Raw[i].customer_id
                      /\ Stg[j].gender = Raw[i].gender
                      /\ Stg[j].product_category = Raw[i].product_category
                      /\ Stg[j].quantity = Raw[i].quantity
                      /\ Stg[j].price_per_unit = Raw[i].price_per_unit
                      /\ Stg[j].total_amount = Raw[i].total_amount

\* C3 witness: a frame with an age of 150 and an age of 17 has been cleaned,
\* and both rows are in the output
C3_Witness ==
    /\ Has("stg_retail_sales")
    /\ Len(Raw) = 2 /\ Len(Stg) = 2
    /\ OnlyAgeOutOfRange(Raw[1]) /\ Raw[1].age = Num(150) /\ Stg[1].age = Num(100)
    /\ OnlyAgeOutOfRange(Raw[2]) /\ Raw[2].age = Num(17) /\ Stg[2].age = Num(18)

\* a raw row with an unparseable date, a non-positive quantity or a non-numeric
\* measure
Malformed(row) ==
    \/ ToDatetime(row.date) = NaT
    \/ ~IsNum(ToNumeric(row.quantity))
    \/ (IsNum(ToNumeric(row.quantity)) /\ ToNumeric(row.quantity).n <= 0)
    \/ ~IsNum(ToNumeric(row.price_per_unit))
    \/ ~IsNum(ToNumeric(row.total_amount))

\* C4: a raw row with an unparseable date, a non-positive quantity or a
\* non-numeric quantity, price_per_unit or total_amount is in no output row of
\* clean_retail_sales, and in no row of the fact table
C4_MalformedRowsExcluded ==
    \A i \in 1..Len(Raw) :
        Malformed(Raw[i]) =>
            /\ Has("stg_retail_sales") =>
                  RowsWith(Stg, "transaction_id", Raw[i].transaction_id) = {}
            /\ Has("fact_sales") =>
                  RowsWith(results["fact_sales"], "transaction_id",
                           Raw[i].transaction_id) = {}

\* the years of the first and of the last sale of the cleaned frame
MinSaleYear ==
    Stg[CHOOSE i \in 1..Len(Stg) : \A j \in 1..Len(Stg) : TsLeq(Stg[i].date, Stg[j].date)].date.y
MaxSaleYear ==
    Stg[CHOOSE i \in 1..Len(Stg) : \A j \in 1..Len(Stg) : TsLeq(Stg[j].date, Stg[i].date)].date.y

\* the date_key of every day of the calendar from Jan 1 of y0 to Dec 31 of y1
CalendarKeys(y0, y1) ==
    {y * 10000 + m * 100 + d : y \in y0..y1, m \in 1..12, d \in 1..31}
    \ ({y * 10000 + m * 100 + d : y \in y0..y1, m \in {4, 6, 9, 11}, d \in {31}}
       \cup {y * 10000 + 200 + d : y \in y0..y1, d \in {30, 31}}
       \cup {y * 10000 + 229 : y \in {x \in y0..y1 : ~IsLeap(x)}})

\* 365 days a year and one more in a leap year
DaysOfYears(y0, y1) ==
    365 * (y1 - y0 + 1) + Cardinality({y \in y0..y1 : IsLeap(y)})

\* C5: build_dim_date returns exactly one row per calendar day from Jan 1 of the
\* minimum sale year to Dec 31 of the maximum sale year: every day of that range
\* has a row, no date_key occurs twice (the keys ascend), and the row count is
\* the number of days of the range
C5_OneRowPerCalendarDay ==
    Has("dim_date") =>
        LET dim == results["dim_date"]
        IN  /\ Len(dim) = DaysOfYears(MinSaleYear, MaxSaleYear)
            /\ {dim[i].date_key : i \in 1..Len(dim)} = CalendarKeys(MinSaleYear, MaxSaleYear)
            /\ \A i \in 1..(Len(dim) - 1) : dim[i].date_key < dim[i + 1].date_key
            /\ dim[1].date_key = MinSaleYear * 10000 + 101
            /\ dim[Len(dim)].date_key = MaxSaleYear * 10000 + 1231

\* C5 witness: sales of 2023 and of the leap year 2024 gave a dimension of
\* 365 + 366 rows
C5_Witness ==
    /\ Has("dim_date")
    /\ MinSaleYear = 2023 /\ MaxSaleYear = 2024
    /\ Len(results["dim_date"]) = 731

\* C6: build_dim_customer emits exactly one row for each distinct customer_id of
\* the cleaned sales and no other row; every row has is_current = true,
\* version = 1 and effective_end_date = 9999-12-31
C6_OneCurrentRowPerCustomer ==
    Has("dim_customer") =>
        LET dim == results["dim_customer"]
            ids == {Stg[i].customer_id : i \in 1..Len(Stg)} \ {NaN}
        IN  /\ \A c \in ids : Cardinality(RowsWith(dim, "customer_id", c)) = 1
            /\ \A j \in 1..Len(dim) :
                  /\ dim[j].customer_id \in ids
                  /\ dim[j].is_current = TRUE
                  /\ dim[j].version = 1
                  /\ dim[j].effective_end_date = Ts(9999, 12, 31)

\* C6 witness: three sales of two customers, one of them buying twice, gave a
\* dimension of two rows
C6_Witness ==
    /\ Has("dim_customer")
    /\ Len(Stg) = 3
    /\ Stg[1].customer_id = Stg[3].customer_id
    /\ Stg[1].customer_id # Stg[2].customer_id
    /\ Stg[2].customer_id # NaN
    /\ Len(results["dim_customer"]) = 2

\* the value Series.map must give: the key of the dimension row, NaN without one
KeyOrNull(dim, key_col, val_col, key) ==
    IF RowsWith(dim, key_col, key) = {} THEN {NaN}
    ELSE {Num(dim[j][val_col]) : j \in RowsWith(dim, key_col, key)}

\* C7: build_fact_sales emits exactly one fact row per cleaned sales row, in the
\* same order; a sale whose customer_id or product_category has no row in the
\* supplied dimension gets a null customer_key / category_key, any other sale the
\* key of its dimension row; a raw row removed by the cleaning has no fact row
\* with its transaction_id
C7_OneFactRowPerSale ==
    Has("fact_sales") =>
        LET fact == results["fact_sales"]
        IN  /\ Len(fact) = Len(Stg)
            /\ \A i \in 1..Len(fact) :
                  /\ fact[i].transaction_id = Stg[i].transaction_id
                  /\ fact[i].sales_key = i
                  /\ fact[i].customer_key \in
                        KeyOrNull(results["dim_customer"], "customer_id",
                                  "customer_key", Stg[i].customer_id)
                  /\ fact[i].category_key \in
                        KeyOrNull(results["dim_product_category"], "category_name",
                                  "category_key", Stg[i].product_category)
            /\ \A i \in 1..Len(Raw) :
                  ~FGt(ToNumeric(Raw[i].quantity), 0) =>
                      RowsWith(fact, "transaction_id", Raw[i].transaction_id) = {}

\* C7 witness: the fact table of a frame whose first row was removed by the
\* cleaning (quantity -1) and whose remaining sale finds neither its customer nor
\* its category in the supplied dimensions
C7_Witness ==
    /\ Has("fact_sales")
    /\ Len(Raw) = 2 /\ Raw[1].quantity = Num(0 - 1)
    /\ Len(results["fact_sales"]) = 1
    /\ results["fact_sales"][1].transaction_id = Num(2)
    /\ results["fact_sales"][1].customer_id # NaN
    /\ results["fact_sales"][1].customer_key = NaN
    /\ results["fact_sales"][1].category_key = NaN

\* C8: in the tables of one transform_all run, every fact row's date_key is the
\* date_key of a dim_date row, every non-null customer_key is the customer_key of
\* the dim_customer row with the same customer_id, and every non-null
\* category_key is the category_key of the dim_product_category row whose
\* category_name is the row's product_category
C8_ForeignKeysResolve ==
    Has("fact_sales") =>
        LET fact == results["fact_sales"]
            dc == results["dim_customer"]
            dk == results["dim_product_category"]
        IN  \A i \in 1..Len(fact) :
              /\ RowsWith(results["dim_date"], "date_key", fact[i].date_key) # {}
              /\ fact[i].customer_key # NaN =>
                    \E j \in 1..Len(dc) : /\ dc[j].customer_id = fact[i].customer_id
                                          /\ Num(dc[j].customer_key) = fact[i].customer_key
              /\ fact[i].category_key # NaN =>
                    \E j \in 1..Len(dk) : /\ dk[j].category_name = fact[i].product_category
                                          /\ Num(dk[j].category_key) = fact[i].category_key

\* C8 witness: a returned run whose fact table has a row with both keys and a
\* row of an unknown customer, in two different years
C8_Witness ==
    /\ pc = "returned"
    /\ Len(results["fact_sales"]) = 3
    /\ results["fact_sales"][1].customer_key = NaN
    /\ results["fact_sales"][2].customer_key # NaN
    /\ results["fact_sales"][2].category_key # NaN
    /\ results["fact_sales"][2].date_key \div 10000 # results["fact_sales"][3].date_key \div 10000

\* a name matches a text when they are equal once trimmed and lower-cased
SameName(a, b) == PyLower(PyStrip(a)) = PyLower(PyStrip(b))
MatchesSales(name) ==
    \E i \in 1..Len(Stg) : IsStr(Stg[i].product_category)
                           /\ SameName(name, Stg[i].product_category.s)
MatchesCatalog(name) ==
    \E i \in 1..Len(extracted.api_categories) : SameName(name, extracted.api_categories[i])

\* C9: in build_dim_product_category the category_source of a row is 'both'
\* exactly when its name matches, case-insensitively, a sales category and a
\* catalog category, 'retail' when it matches a sales category only, and 'api'
\* when it matches a catalog category only
C9_CategorySource ==
    Has("dim_product_category") =>
        \A j \in 1..Len(results["dim_product_category"]) :
            LET row == results["dim_product_category"][j]
                name == row.category_name.s
            IN  /\ row.category_source = "both" <=> (MatchesSales(name) /\ MatchesCatalog(name))
                /\ row.category_source = "retail" <=> (MatchesSales(name) /\ ~MatchesCatalog(name))
                /\ row.category_source = "api" <=> (~MatchesSales(name) /\ MatchesCatalog(name))

\* C9 witness: 'electronics' is in the catalog only and 'Clothing' in the sales
\* only; the dimension holds Clothing as 'retail' and Electronics as 'api'
C9_Witness ==
    /\ Has("dim_product_category")
    /\ extracted.api_categories = <<T_electronics>>
    /\ Len(results["dim_product_category"]) = 2
    /\ results["dim_product_category"][1] =
          [category_key |-> 1, category_name |-> Str(T_Clothing), category_source |-> "retail"]
    /\ results["dim_product_category"][2] =
          [category_key |-> 2, category_name |-> Str(T_Electronics), category_source |-> "api"]

\* the year and month a date_key names
YearOfKey(key) == key \div 10000
MonthOfKey(key) == (key \div 100) % 100

\* the fact rows of a year and month
FactRowsOfMonth(fact, y, m) ==
    {i \in 1..Len(fact) : YearOfKey(fact[i].date_key) = y /\ MonthOfKey(fact[i].date_key) = m}

RECURSIVE TotalOf(_, _)
\* the sum of the total_amount of the fact rows idx
TotalOf(fact, idx) ==
    IF idx = {} THEN 0
    ELSE LET i == CHOOSE j \in idx : TRUE
         IN  fact[i].total_amount.n + TotalOf(fact, idx \ {i})

RECURSIVE RevenueOf(_, _)
\* the sum of total_revenue over the first n mart rows
RevenueOf(mart, n) == IF n = 0 THEN 0 ELSE mart[n].total_revenue + RevenueOf(mart, n - 1)

\* C10: build_mart_sales_performance returns exactly one row for each
\* (year, month) with at least one fact row and none for a month without sales;
\* a row's total_revenue is the sum of total_amount over the fact rows of its
\* month, and the total revenue of the mart is the total revenue of the fact table
C10_OneRowPerMonthWithSales ==
    Has("mart_sales_performance") =>
        LET fact == results["fact_sales"]
            mart == results["mart_sales_performance"]
        IN  /\ \A i \in 1..Len(fact) :
                  Cardinality({k \in 1..Len(mart) :
                                  /\ mart[k].year = YearOfKey(fact[i].date_key)
                                  /\ mart[k].month = MonthOfKey(fact[i].date_key)}) = 1
            /\ \A k \in 1..Len(mart) :
                  /\ FactRowsOfMonth(fact, mart[k].year, mart[k].month) # {}
                  /\ mart[k].total_revenue =
                        TotalOf(fact, FactRowsOfMonth(fact, mart[k].year, mart[k].month))
            /\ RevenueOf(mart, Len(mart)) = TotalOf(fact, 1..Len(fact))

\* C10 witness: three sales in January and February of one year gave a mart of
\* exactly two rows, January before February
C10_Witness ==
    /\ Has("mart_sales_performance")
    /\ Len(results["fact_sales"]) = 3
    /\ {results["fact_sales"][i].date_key : i \in 1..3} = {20230115, 20230210}
    /\ Len(results["mart_sales_performance"]) = 2
    /\ results["mart_sales_performance"][1].month = 1
    /\ results["mart_sales_performance"][2].month = 2

\* the rows of mart_sales_performance are in ascending (year, month) order, the
\* first has no previous month and no growth, and every later row carries the
\* total_revenue of the row before it
GrowthRowsChained(mart) ==
    /\ \A k \in 1..(Len(mart) - 1) :
          mart[k].year * 100 + mart[k].month < mart[k + 1].year * 100 + mart[k + 1].month
    /\ Len(mart) > 0 => mart[1].revenue_prev_month = NaN /\ mart[1].revenue_growth_pct = NaN
    /\ \A k \in 2..Len(mart) : mart[k].revenue_prev_month = Num(mart[k - 1].total_revenue)

\* g hundredths of a percent is exactly (curr - prev) / prev * 100
IsExactGrowth(g, curr, prev) ==
    prev # 0 /\ IsNum(g) /\ g.n * prev = (curr - prev) * 10000

\* g is the hundredth of a percent nearest to (curr - prev) / prev * 100
IsRoundedGrowth(g, curr, prev) ==
    /\ IsNum(g)
    /\ LET diff == g.n * prev - (curr - prev) * 10000
       IN  2 * (IF diff < 0 THEN 0 - diff ELSE diff) <= (IF prev < 0 THEN 0 - prev ELSE prev)

\* C11 as stated: whatever the order of the fact rows, the rows of
\* mart_sales_performance ascend by (year, month), the first row has null
\* revenue_prev_month and null revenue_growth_pct, and every later row has
\* revenue_prev_month equal to the total_revenue of the row before it and
\* revenue_growth_pct = (total_revenue - revenue_prev_month) / revenue_prev_month * 100
C11_GrowthIsExactRatio ==
    Has("mart_sales_performance") =>
        LET mart == results["mart_sales_performance"]
        IN  /\ GrowthRowsChained(mart)
            /\ \A k \in 2..Len(mart) :
                  IsExactGrowth(mart[k].revenue_growth_pct, mart[k].total_revenue,
                                mart[k - 1].total_revenue)

\* C11 as amended: the rows ascend by (year, month) whatever the order of the
\* fact rows, the first row has null revenue_prev_month and revenue_growth_pct,
\* every later row has the total_revenue of the row before it as
\* revenue_prev_month, and its revenue_growth_pct is the ratio rounded to two
\* decimals when the previous revenue is not zero, infinite when the previous
\* revenue is zero and its own is not, and null when both are zero
C11_GrowthIsRoundedRatio ==
    Has("mart_sales_performance") =>
        LET mart == results["mart_sales_performance"]
        IN  /\ GrowthRowsChained(mart)
            /\ \A k \in 2..Len(mart) :
                  LET curr == mart[k].total_revenue
                      prev == mart[k - 1].total_revenue
                      g == mart[k].revenue_growth_pct
                  IN  /\ prev # 0 => IsRoundedGrowth(g, curr, prev)
                      /\ prev = 0 /\ curr # 0 => g = Inf
                      /\ prev = 0 /\ curr = 0 => g = NaN

\* C11 witness: the fact rows run from the latest month to the earliest, the
\* mart has three months, the second grew by 8/7 (114.29 percent once rounded)
\* and the third fell by a third
C11_Witness ==
    /\ Has("mart_sales_performance")
    /\ Len(results["fact_sales"]) = 3
    /\ results["fact_sales"][1].date_key > results["fact_sales"][2].date_key
    /\ results["fact_sales"][2].date_key > results["fact_sales"][3].date_key
    /\ Len(results["mart_sales_performance"]) = 3
    /\ results["mart_sales_performance"][2].revenue_prev_month = Num(7)
    /\ results["mart_sales_performance"][2].revenue_growth_pct = Num(11429)
    /\ results["mart_sales_performance"][3].revenue_growth_pct = Num(0 - 3333)

\* C11 witness of a month after a month without revenue
C11_ZeroPreviousMonth ==
    /\ Has("mart_sales_performance")
    /\ \E k \in 2..Len(results["mart_sales_performance"]) :
          /\ results["mart_sales_performance"][k - 1].total_revenue = 0
          /\ results["mart_sales_performance"][k].revenue_growth_pct = Inf

MartCategory == results["mart_category_analysis"]

\* the revenue of the fact rows of a category, and of those of one gender
RECURSIVE AmountOf(_, _)
AmountOf(fact, idx) ==
    IF idx = {} THEN 0
    ELSE LET i == CHOOSE j \in idx : TRUE
         IN  (IF IsNum(fact[i].total_amount) THEN fact[i].total_amount.n ELSE 0)
             + AmountOf(fact, idx \ {i})

CategoryFacts(cat) ==
    {i \in 1..Len(results["fact_sales"]) : results["fact_sales"][i].product_category = cat}
GenderFacts(cat, g) ==
    {i \in CategoryFacts(cat) : results["fact_sales"][i].gender = g}
CategoryRevenue(cat) == AmountOf(results["fact_sales"], CategoryFacts(cat))
GenderRevenue(cat, g) == AmountOf(results["fact_sales"], GenderFacts(cat, g))
FactRevenue == AmountOf(results["fact_sales"], 1..Len(results["fact_sales"]))

\* p hundredths of a percent is the hundredth nearest to part / whole * 100
IsRoundedPct(p, part, whole) ==
    /\ IsNum(p)
    /\ LET diff == p.n * whole - part * 10000
       IN  2 * (IF diff < 0 THEN 0 - diff ELSE diff) <= (IF whole < 0 THEN 0 - whole ELSE whole)

RECURSIVE ShareSum(_, _)
\* the sum of the revenue_share_pct of the first n rows, missing values skipped
ShareSum(mart, n) ==
    IF n = 0 THEN 0
    ELSE (IF IsNum(mart[n].revenue_share_pct) THEN mart[n].revenue_share_pct.n ELSE 0)
         + ShareSum(mart, n - 1)

\* every share is its category's part of the whole, to the nearest hundredth,
\* and the shares add up to 100 within half a hundredth per category
SharesAddUp(mart) ==
    /\ \A k \in 1..Len(mart) :
          IsRoundedPct(mart[k].revenue_share_pct, mart[k].total_revenue, FactRevenue)
    /\ LET off == ShareSum(mart, Len(mart)) - 10000
       IN  2 * (IF off < 0 THEN 0 - off ELSE off) <= Len(mart)

\* C12 as stated: in mart_category_analysis each row's revenue_share_pct is its
\* total_revenue divided by the sum of total_revenue over all rows times 100,
\* and the shares add up to 100 within rounding tolerance for every non-empty
\* fact table
C12_SharesAddUpForEveryFactTable ==
    Has("mart_category_analysis") /\ Len(results["fact_sales"]) > 0 =>
        SharesAddUp(MartCategory)

\* C12 as amended: the same for every fact table whose total revenue is not
\* zero; when the total revenue is zero every share is null (infinite for a
\* category whose own revenue is not zero) and the shares do not add up to 100
C12_SharesAddUpForNonZeroRevenue ==
    Has("mart_category_analysis") =>
        /\ FactRevenue # 0 => SharesAddUp(MartCategory)
        /\ FactRevenue = 0 =>
              \A k \in 1..Len(MartCategory) :
                  MartCategory[k].revenue_share_pct =
                      IF MartCategory[k].total_revenue = 0 THEN NaN ELSE Inf

\* C12 witness: Clothing sold for 7 and Electronics for 15: the shares are
\* 31.82 and 68.18
C12_Witness ==
    /\ Has("mart_category_analysis")
    /\ Len(MartCategory) = 2
    /\ MartCategory[1].total_revenue = 7 /\ MartCategory[1].revenue_share_pct = Num(3182)
    /\ MartCategory[2].total_revenue = 15 /\ MartCategory[2].revenue_share_pct = Num(6818)

\* C12 witness of a fact table of free items only
C12_ZeroRevenue ==
    /\ Has("mart_category_analysis")
    /\ Len(results["fact_sales"]) > 0
    /\ FactRevenue = 0
    /\ MartCategory[1].revenue_share_pct = NaN

\* C13: a category all of whose revenue comes from gender 'Female' has
\* female_revenue_pct = 100 and male_revenue_pct = 0 in mart_category_analysis,
\* whether or not any other category has 'Male' sales
C13_FemaleOnlyCategory ==
    Has("mart_category_analysis") =>
        \A k \in 1..Len(MartCategory) :
            LET cat == MartCategory[k].product_category
            IN  (/\ GenderFacts(cat, Female) = CategoryFacts(cat)
                 /\ CategoryRevenue(cat) > 0)
                => /\ MartCategory[k].has_gender_pct
                   /\ MartCategory[k].female_revenue_pct = Num(10000)
                   /\ MartCategory[k].male_revenue_pct = Num(0)

\* the case C13 states does happen when another category has 'Male' sales
C13_FemaleOnlyBesideMale ==
    /\ Has("mart_category_analysis")
    /\ Len(MartCategory) = 2
    /\ GenderFacts(MartCategory[1].product_category, Female)
          = CategoryFacts(MartCategory[1].product_category)
    /\ MartCategory[1].female_revenue_pct = Num(10000)
    /\ MartCategory[1].male_revenue_pct = Num(0)

\* the fact table has a Female sale and a Male sale, in whatever categories
TableHasBothGenders ==
    /\ \E i \in 1..Len(results["fact_sales"]) : results["fact_sales"][i].gender = Female
    /\ \E i \in 1..Len(results["fact_sales"]) : results["fact_sales"][i].gender = Male

\* C14 as stated: the gender percentages of a category are computed only when
\* that category has both Female and Male revenue with a non-zero combined
\* amount; in every other case female_revenue_pct and male_revenue_pct are
\* absent or null for that category
C14_PctOnlyForCategoryWithBothGenders ==
    Has("mart_category_analysis") =>
        \A k \in 1..Len(MartCategory) :
            LET cat == MartCategory[k].product_category
                computed == /\ MartCategory[k].has_gender_pct
                            /\ \/ MartCategory[k].female_revenue_pct # NaN
                               \/ MartCategory[k].male_revenue_pct # NaN
            IN  computed =>
                   /\ GenderFacts(cat, Female) # {}
                   /\ GenderFacts(cat, Male) # {}
                   /\ GenderRevenue(cat, Female) + GenderRevenue(cat, Male) # 0

\* C14 as amended: the gender percentages are computed for every category as
\* soon as the fact table as a whole has a Female sale and a Male sale: a
\* category whose Female and Male revenue F and M have F + M # 0 gets
\* female_revenue_pct = F / (F + M) * 100 rounded to two decimals and
\* male_revenue_pct = 100 - female_revenue_pct, also when only one of the two
\* genders bought in it; a category with F = M = 0 gets null for both; when the
\* fact table has no Female sale or no Male sale both columns are absent
C14_PctWhenTableHasBothGenders ==
    Has("mart_category_analysis") =>
        \A k \in 1..Len(MartCategory) :
            LET cat == MartCategory[k].product_category
                F == GenderRevenue(cat, Female)
                M == GenderRevenue(cat, Male)
                row == MartCategory[k]
            IN  /\ row.has_gender_pct = TableHasBothGenders
                /\ ~TableHasBothGenders =>
                      row.female_revenue_pct = NaN /\ row.male_revenue_pct = NaN
                /\ TableHasBothGenders /\ F + M # 0 =>
                      /\ IsRoundedPct(row.female_revenue_pct, F, F + M)
                      /\ row.male_revenue_pct = Num(10000 - row.female_revenue_pct.n)
                /\ TableHasBothGenders /\ F = 0 /\ M = 0 =>
                      row.female_revenue_pct = NaN /\ row.male_revenue_pct = NaN

\* C14 witness: Clothing was bought by a woman (7) and a man (10), Electronics
\* by a customer of unknown gender only: 41.18 and 58.82 for Clothing, null for
\* Electronics
C14_Witness ==
    /\ Has("mart_category_analysis")
    /\ Len(MartCategory) = 2
    /\ MartCategory[1].female_revenue_pct = Num(4118)
    /\ MartCategory[1].male_revenue_pct = Num(5882)
    /\ MartCategory[2].has_gender_pct
    /\ MartCategory[2].female_revenue_pct = NaN

\* C14 witness of a zero combined amount: Clothing holds a free item bought by
\* a woman, the Male sale is in Electronics
C14_ZeroCombinedAmount ==
    /\ Has("mart_category_analysis")
    /\ Len(MartCategory) = 2
    /\ MartCategory[1].has_gender_pct
    /\ GenderFacts(MartCategory[1].product_category, Female) # {}
    /\ MartCategory[1].total_revenue = 0
    /\ MartCategory[1].female_revenue_pct = NaN

\* a second call of transform_all on the same data has returned
SecondRunReturned == pc = "returned" /\ previous # NoRun

\* the columns set from the clock agree in every table that has a row
SameClockColumns ==
    \A t \in DOMAIN stamps : Len(results[t]) > 0 => stamps[t] = previous.stamps[t]

MissingColumns == RequiredColumns \ extracted.sales_columns

\* clean_retail_sales has been called and has ended
CleaningEnded == pc # "clean_retail_sales"

SurvivingRows ==
    {i \in 1..Len(Raw) : /\ ToDatetime(Raw[i].date) # NaT
                         /\ FGt(ToNumeric(Raw[i].quantity), 0)}

SoundRow(row) ==
    /\ ToDatetime(row.date) # NaT
    /\ FGt(ToNumeric(row.quantity), 0)
    /\ IsNum(ToNumeric(row.price_per_unit)) /\ IsNum(ToNumeric(row.total_amount))
    /\ IsNum(row.age)
    /\ IsStr(row.gender) /\ IsStr(row.product_category) /\ IsStr(row.customer_id)

\* C17: when all required columns are present, no single malformed row (bad
\* date, non-numeric quantity / price / total, non-numeric or null age, null
\* gender, null product_category, null customer_id) makes transform_all raise:
\* a table with a sound row beside the malformed one is transformed to the end
C17_MalformedRowNeverRaises ==
    (/\ extracted.sales_columns = RequiredColumns
     /\ \E i \in 1..Len(Raw) : SoundRow(Raw[i]))
    => pc # "raised"

\* the anomalies that are absorbed: of a sound sale and a sale with a missing
\* age, both reach the fact table
C17_NullAgeAbsorbed ==
    /\ pc = "returned"
    /\ Len(Raw) = 2 /\ SoundRow(Raw[1]) /\ Raw[2].age = NaN
    /\ Len(results["fact_sales"]) = 2

\* the cleaning returns a table without rows
CleanedEmpty ==
    /\ clean_retail_sales_frame(extracted.sales_columns, Raw).err = "none"
    /\ clean_retail_sales_frame(extracted.sales_columns, Raw).rows = <<>>

\* build_dim_date returns a table for every cleaned table that has a row, and
\* transform_all gets past it only with the date dimension
DimDateFailsOnlyWhenEmpty ==
    /\ Has("stg_retail_sales") /\ Stg # <<>> => build_dim_date(Stg).err = "none"
    /\ Has("stg_retail_sales") /\ Stg = <<>> => pc \in {"clean_api_products", "build_dim_date"}
    /\ pc = "build_dim_customer" => Has("dim_date") /\ Len(results["dim_date"]) >= 365

TableOrder ==
    <<"stg_retail_sales", "stg_api_products", "dim_date", "dim_customer", "dim_product",
      "dim_product_category", "fact_sales", "mart_sales_performance",
      "mart_category_analysis">>
CallOrder ==
    <<"clean_retail_sales", "clean_api_products", "build_dim_date", "build_dim_customer",
      "build_dim_product", "build_dim_product_category", "build_fact_sales",
      "build_mart_sales_performance", "build_mart_category_analysis", "return">>

\* the error of the first stage that fails on the extracted data, "none" if
\* none does
ErrorOfRun ==
    LET sales == clean_retail_sales_frame(extracted.sales_columns, Raw)
        products == clean_api_products(extracted.api_products)
    IN  IF sales.err # "none" THEN sales.err
        ELSE IF products.err # "none" THEN products.err
        ELSE IF build_dim_date(sales.rows).err # "none" THEN build_dim_date(sales.rows).err
        ELSE build_dim_product_category(sales.rows, extracted.api_categories).err

\* C19: transform_all has exactly two outcomes: it returns a mapping holding
\* all nine tables, or a stage fails, no later stage runs, no retry is made, no
\* partial mapping is returned and the stage's error reaches the caller
\* unchanged.  Until then every stage before the current one has stored its
\* table and no other has.
C19_AllTablesOrError ==
    /\ pc = "returned" =>
          /\ DOMAIN results = Range(TableOrder)
          /\ error = "none" /\ ErrorOfRun = "none"
    /\ pc = "raised" =>
          /\ results = NoTables
          /\ error # "none" /\ error = ErrorOfRun
          /\ ~ENABLED Next
    /\ pc \notin {"returned", "raised"} =>
          /\ error = "none"
          /\ \E k \in 1..Len(CallOrder) :
                /\ pc = CallOrder[k]
                /\ DOMAIN results = {TableOrder[j] : j \in 1..(k - 1)}

\* C19 witness: the category builder failed on a sale without a category, after
\* five tables had been built, and nothing is returned
C19_Witness ==
    /\ pc = "raised"
    /\ Len(Raw) = 2
    /\ \E i \in 1..2 : Raw[i].product_category = NaN
    /\ clean_retail_sales(Raw).err = "none"
    /\ clean_retail_sales(Raw).rows # <<>>
    /\ error = "TypeError"
    /\ results = NoTables

\* C19 witness of the other outcome: nine tables are returned
C19_Returned ==
    /\ pc = "returned"
    /\ Cardinality(DOMAIN results) = 9
    /\ Len(results["fact_sales"]) = 2

\* the customer dimension of the warehouse
WhCustomer == bq[DimCustomerTable]

\* the rows of a customer in the warehouse, and the current ones among them
CustomerRows(c) == {i \in 1..Len(WhCustomer) : WhCustomer[i].customer_id = c}
CurrentRows(c) == {i \in CustomerRows(c) : WhCustomer[i].is_current}

\* C20: in every reachable state across any sequence of
\* scd_type2_merge_customer calls, the state between the expire step and the
\* insert step and the states after a failed merge query and its fallback load
\* included, every customer_id that has rows in the customer dimension has
\* exactly one row with is_current = true
C20_ExactlyOneCurrentRow ==
    DimCustomerTable \in DOMAIN bq =>
        \A i \in 1..Len(WhCustomer) :
            Cardinality(CurrentRows(WhCustomer[i].customer_id)) = 1

\* between two calls that returned, every customer has one current row: a
\* second version of a customer beside the expired first
C20_OneCurrentAfterMerge ==
    /\ merge.pc = "idle" /\ merge.outcome = "returned"
    /\ DimCustomerTable \in DOMAIN bq
    /\ \E i \in 1..Len(WhCustomer) :
          /\ Cardinality(CustomerRows(WhCustomer[i].customer_id)) = 2
          /\ Cardinality(CurrentRows(WhCustomer[i].customer_id)) = 1

---------------------------------------------------------------------------
(* Properties of the customer dimension across merges *)

\* a sale is on file before the run that loads it: every purchase date lies
\* before every reading of CURRENT_TIMESTAMP(), and every reading lies before
\* the 9999-12-31 sentinel
StampLeq(a, b) ==
    IF a.k = "clock" /\ b.k = "clock" THEN a.t <= b.t
    ELSE IF a.k = "clock" THEN b = FarFuture
    ELSE IF b.k = "clock" THEN a # FarFuture
    ELSE TsLeq(a, b)

\* the row that superseded row i: the next row of the same customer_id
Superseding(i) ==
    {j \in CustomerRows(WhCustomer[i].customer_id) :
        /\ j > i
        /\ \A k \in CustomerRows(WhCustomer[i].customer_id) : k > i => j <= k}

\* C21: after any sequence of scd_type2_merge_customer calls, for every
\* customer_id the effective_end_date of each non-current row is less than or
\* equal to the effective_start_date of the row that superseded it
C21_EndNotAfterSupersedingStart ==
    DimCustomerTable \in DOMAIN bq =>
        \A i \in 1..Len(WhCustomer) :
            ~WhCustomer[i].is_current =>
                \A j \in Superseding(i) :
                    StampLeq(WhCustomer[i].effective_end_date,
                             WhCustomer[j].effective_start_date)

\* C22: when scd_type2_merge_customer receives a candidate whose row_hash
\* differs from the current row of the same customer_id, the old row is expired
\* (is_current = false, end date = the merge time) and the row inserted in its
\* place has version = old version + 1 and start date = the merge time: every
\* expired row ends at a clock reading, and the row that superseded it carries
\* the next version and starts at a clock reading not before that end
C22_ChangedRowGetsNextVersion ==
    DimCustomerTable \in DOMAIN bq =>
        \A i \in 1..Len(WhCustomer) :
            ~WhCustomer[i].is_current =>
                /\ WhCustomer[i].effective_end_date.k = "clock"
                /\ \A j \in Superseding(i) :
                      /\ WhCustomer[j].version = WhCustomer[i].version + 1
                      /\ WhCustomer[j].effective_start_date.k = "clock"
                      /\ StampLeq(WhCustomer[i].effective_end_date,
                                  WhCustomer[j].effective_start_date)

---------------------------------------------------------------------------
(* Properties of load_all *)

\* the rows of a warehouse table, none when the table does not exist
WhRows(tables, name) == IF name \in DOMAIN tables THEN tables[name] ELSE <<>>

\* every version a table held is still in it: a row of the same key and row_hash
VersionsKept(before, after, key) ==
    \A i \in 1..Len(before) :
        \E j \in 1..Len(after) :
            /\ after[j][key] = before[i][key]
            /\ after[j].row_hash = before[i].row_hash

\* C23: load_all writes the Customer and the Product dimension through an SCD2
\* merge that compares row_hash with the rows already in the warehouse and keeps
\* prior versions: the step of load_all that writes dim_product leaves every
\* version the warehouse held of a product in the table
C23_ProductVersionsKept ==
    [][(load.pc = "dim_product" /\ load'.pc = NextLoad("dim_product")) =>
           VersionsKept(WhRows(bq, "dim_product"), WhRows(bq', "dim_product"),
                        "api_product_id")]_vars

---------------------------------------------------------------------------
(* Properties of one merge call *)

\* every candidate row has the customer_id and the row_hash of a current row of
\* the customer dimension
CandidatesUnchanged ==
    /\ DimCustomerTable \in DOMAIN bq
    /\ \A j \in 1..Len(df_new) :
          \E i \in 1..Len(WhCustomer) :
              /\ WhCustomer[i].customer_id = df_new[j].customer_id
              /\ WhCustomer[i].row_hash = df_new[j].row_hash
              /\ WhCustomer[i].is_current

\* the step leaves the customer dimension as it is
DimensionUntouched == WhRows(bq', DimCustomerTable) = WhRows(bq, DimCustomerTable)

CandidatesCurrent == CandidatesUnchanged

\* C29: whenever scd_type2_merge_customer returns without raising (first load,
\* successful merge, or failed merge followed by the fallback load), every
\* customer_id of the candidate set has a current row in the customer dimension
\* with the candidate's row_hash, and the temporary staging table is gone
C29_CandidatesCurrentAndStagingGone ==
    (merge.pc = "idle" /\ merge.outcome = "returned") =>
        /\ CandidatesCurrent
        /\ StagingTable \notin DOMAIN bq

\* C29 (amended): the same, except that the staging table is deleted only when
\* client.delete_table succeeds: a failed deletion is swallowed and the staging
\* table still holds the candidates
C29_CandidatesCurrentAndStagingGoneOrKept ==
    (merge.pc = "idle" /\ merge.outcome = "returned") =>
        /\ CandidatesCurrent
        /\ StagingTable \in DOMAIN bq => bq[StagingTable] = df_new

\* a second call has returned after a merge that expired a row and inserted its
\* successor, and the staging table is deleted
C29_Witness ==
    /\ merge.pc = "idle" /\ merge.outcome = "returned"
    /\ merge.calls = 2
    /\ StagingTable \notin DOMAIN bq
    /\ \E i \in 1..Len(WhCustomer) : ~WhCustomer[i].is_current
    /\ \E j \in 1..Len(df_new) : \E i \in 1..Len(WhCustomer) :
          /\ i > 1
          /\ WhCustomer[i] = df_new[j]

---------------------------------------------------------------------------
(* Properties of the category dimension *)

DimCategory == results["dim_product_category"]

\* the categories of the cleaned sales, of the category list of the catalog
\* (case-normalised) and of the cleaned catalog products
SalesCategories == {Stg[i].product_category : i \in 1..Len(Stg)}
ListedCategories == ApiCats(extracted.api_categories)
ProductCategories ==
    {results["stg_api_products"][i].category : i \in 1..Len(results["stg_api_products"])}

\* C26: build_dim_product_category returns exactly one row per distinct
\* case-normalised category name in the union of the cleaned sales categories
\* and the catalog categories, every category of a catalog product included,
\* with category_name unique and category_key the 1-based rank of the name in
\* sorted order
C26_OneRowPerCategoryOfUnion ==
    Has("dim_product_category") =>
        /\ {DimCategory[k].category_name : k \in 1..Len(DimCategory)}
              = SalesCategories \cup ListedCategories \cup ProductCategories
        /\ \A k \in 1..Len(DimCategory) : DimCategory[k].category_key = k
        /\ \A k, l \in 1..Len(DimCategory) :
              k < l =>
                 /\ StrLess(DimCategory[k].category_name.s, DimCategory[l].category_name.s)
                 /\ PyLower(DimCategory[k].category_name.s)
                       # PyLower(DimCategory[l].category_name.s)

---------------------------------------------------------------------------
(* Properties of run_pipeline *)

StageDone(stage) == stage \in DOMAIN pipeline.stages

\* transform_all, load_all have been entered in this run
TransformEntered == pc # "idle"
LoadEntered == load # LoadIdle

\* a running run_pipeline is at a step that can be taken: at the call of
\* extract_all, inside transform_all or at its end, inside load_all (or the merge
\* it calls) or at its end, or at the summary
PipelineAtStep ==
    \/ pipeline.pc \in {"extract", "summary"}
    \/ /\ pipeline.pc = "transform"
       /\ pc \in {CallOrder[i] : i \in 1..Len(CallOrder)} \cup {"returned", "raised"}
    \/ /\ pipeline.pc = "load"
       /\ \/ load.pc \in {"ensure_dataset", "return"} \cup FullRefreshTables
          \/ load.pc = DimCustomerTable /\ merge.pc = "idle"
          \/ load.pc = "merge_customer"
                /\ merge.pc \in {"idle", "get_table", "first_load", "load_staging",
                                 "expire", "insert", "fallback", "delete_staging"}
          \/ load.pc = "idle" /\ load.outcome \in {"returned", "raised"}

\* C30: run_pipeline never lets a stage's exception escape and always returns
\* a result whose status is 'success' or 'failed'; the stages run in the order
\* extract, transform, load, each only after the one before succeeded; when a
\* stage raises, the status is 'failed', the error text is recorded and no
\* later stage runs; with skip_load load_all is never called and the load stage
\* is recorded as 'skipped'
C30_StagesInOrderOrFailed ==
    /\ ~pipeline.escaped
    /\ pipeline.status = "running" => PipelineAtStep
    /\ pipeline.pc = "returned" => pipeline.status \in {"success", "failed"}
    /\ TransformEntered => StageDone("extract") /\ pipeline.stages["extract"] = "success"
    /\ LoadEntered => StageDone("transform") /\ pipeline.stages["transform"] = "success"
    /\ StageDone("load") => StageDone("transform")
    /\ StageDone("transform") => pc = "returned"
    /\ (StageDone("load") /\ pipeline.stages["load"] = "success")
          => load.outcome = "returned"
    /\ pipeline.status = "failed" =>
          /\ pipeline.error # "none"
          /\ ~StageDone("load")
          /\ \/ ~TransformEntered /\ ~LoadEntered /\ pipeline.error = "ExtractError"
             \/ pc = "raised" /\ ~LoadEntered /\ pipeline.error = error
             \/ load.outcome = "raised" /\ pipeline.error = "LoadError"
    /\ pipeline.status = "success" =>
          /\ StageDone("load")
          /\ pipeline.error = "none"
    /\ pipeline.skip_load =>
          /\ ~LoadEntered
          /\ pipeline.status = "success" => pipeline.stages["load"] = "skipped"
    /\ (StageDone("load") /\ pipeline.stages["load"] = "skipped") => pipeline.skip_load

\* a run whose load stage raised in the middle of load_all has returned with
\* the status 'failed' and the two earlier stages recorded as successes
C30_Witness ==
    /\ pipeline.pc = "returned"
    /\ pipeline.status = "failed"
    /\ pipeline.error = "LoadError"
    /\ DOMAIN pipeline.stages = {"extract", "transform"}
    /\ "dim_date" \in DOMAIN load.stats
    /\ "fact_sales" \notin DOMAIN load.stats

---------------------------------------------------------------------------
(* Properties of a run of the retail_etl_pipeline DAG *)

\* the tables whose row counts task_validate_transform checks
GateTables == {"stg_retail_sales", "dim_customer", "dim_date", "fact_sales"}

\* the task instance was run at least once
Started(t) == StateOf(t) \in {"running", "up_for_retry", "success", "failed"}

\* C24: in one DAG run transform_all is invoked exactly once, so that the
\* tables load_to_bigquery has written are the tables whose row counts
\* validate_transform checked
C24_TransformAllInvokedOnce ==
    StateOf("load_to_bigquery") = "success" =>
        /\ dag.transforms = 1
        /\ RowCounts = Pull("transform_row_counts", NoTables)

\* C25: load_to_bigquery starts only after validate_transform has succeeded,
\* and validate_transform succeeds only if each of stg_retail_sales,
\* dim_customer, dim_date and fact_sales has a reported row count at or above
\* its configured minimum, a table missing from the counts counting as 0 rows
C25_LoadOnlyAfterGatePassed ==
    /\ Started("load_to_bigquery") => StateOf("validate_transform") = "success"
    /\ StateOf("validate_transform") = "success" =>
          \A table \in GateTables :
             LET counts == Pull("transform_row_counts", NoTables)
             IN  (IF table \in DOMAIN counts THEN counts[table] ELSE 0)
                     >= dag.thresholds[table]

C25_Witness ==
    /\ StateOf("load_to_bigquery") = "running"
    /\ StateOf("validate_transform") = "success"
    /\ dag.step = "load"

\* C27: when extract_api_products or extract_api_categories ends skipped and
\* retail_sales has at least one row, validate_extract runs and the run goes
\* on to transform_data: neither of them ends without having been run
C27_RunContinuesWithoutApi ==
    ( /\ \/ StateOf("extract_api_products") = "skipped"
         \/ StateOf("extract_api_categories") = "skipped"
      /\ StateOf("extract_retail_sales") = "success"
      /\ Pull("retail_sales_rows", 0) > 0 )
    => /\ StateOf("validate_extract") \notin {"skipped", "upstream_failed"}
       /\ StateOf("transform_data") \notin {"skipped", "upstream_failed"}

====
